---- MODULE Spec2Model ----
(***************************************************************************)
(* A model of tapiriik/services/interchange.py: the unit conversion graph  *)
(* of ActivityStatistic, the statistic merge operations, the activity type *)
(* hierarchy, and the Activity operations CalculateTZ, CheckSanity and     *)
(* CleanStats.                                                             *)
(*                                                                         *)
(* Numbers are exact rationals <<n, d>> (d > 0, lowest terms); Python's    *)
(* None is the empty tuple, so that a field is either None or a rational.  *)
(***************************************************************************)
EXTENDS Integers, Sequences, FiniteSets, TLC

VARIABLES
    \* ---- inputs and results of the conversion calls
    inFrom, inTo, inVal,    \* arguments of convertValue / asUnits
    edgeOrder,              \* iteration order of conversions.keys()
    cv,                     \* result of convertValue(inVal, inFrom, inTo)
    back,                   \* result of converting cv's value back
    \* ---- the ActivityStatistic objects
    objs,                   \* object id -> [Units, f (the six fields), sid]
    stores,                 \* sid -> the _samples dict
    ret,                    \* reference returned by the last asUnits
    last,                   \* the last merge call: operation, operands, pre-state
    nops,                   \* number of calls made so far
    \* ---- the Activity
    Stats,                  \* self.Stats: key -> [Units, f, samples]
    Laps,                   \* self.Laps: sequence of [StartTime, EndTime, Stats, Waypoints]
    focus,                  \* the metric the ingested statistics are about
    summed,                 \* the laps whose Stats were summed into self.Stats
    call,                   \* the last Activity call, its arguments and its outcome
    pre,                    \* the Activity's state before that call
    StartTime, EndTime,     \* self.StartTime, self.EndTime
    Stationary,             \* self.Stationary
    TZ, FallbackTZ,         \* self.TZ, self.FallbackTZ
    tz_cache,               \* cachedb.tz_cache: the documents in insertion order
    \* ---- ActivityType.PickMostSpecific
    types,                  \* the argument
    picked,                 \* the value returned
    \* ---- identity, a second activity, and the callers of the timezone cache
    UID,                    \* self.UID (None while the attribute is not set)
    peer,                   \* a second Activity: [StartTime, TZ, UID]
    callers,                \* caller -> its point in CalculateTZ, its locals, its activity's TZ
    events                  \* the calls made to tz_cache and to TZLookup, in order

convVars == <<inFrom, inTo, inVal, cv, back>>
statVars == <<objs, stores, ret, last, nops>>
actVars == <<Stats, Laps, focus, summed, call, pre>>
timeVars == <<StartTime, EndTime, Stationary>>
tzVars == <<TZ, FallbackTZ, tz_cache>>
pickVars == <<types, picked>>
moreVars == <<UID, peer, callers, events>>
restVars == <<timeVars, tzVars, pickVars, moreVars>>
vars == <<convVars, edgeOrder, statVars, actVars, restVars>>

None == <<>>

----------------------------------------------------------------------------
(* Exact rational arithmetic.                                              *)

Abs(n) == IF n < 0 THEN -n ELSE n

RECURSIVE GCD(_, _)
GCD(a, b) == IF b = 0 THEN a ELSE GCD(b, a % b)

Rat(n, d) ==
    LET g == GCD(Abs(n), Abs(d))
        s == IF d < 0 THEN -1 ELSE 1
    IN  <<(s * n) \div g, (s * d) \div g>>

RInt(n) == <<n, 1>>

\* Products are reduced crosswise first, which keeps the intermediate
\* numbers small.
RMul(x, y) ==
    LET g1 == GCD(Abs(x[1]), y[2])
        g2 == GCD(Abs(y[1]), x[2])
        a == IF g1 = 0 THEN 1 ELSE g1
        b == IF g2 = 0 THEN 1 ELSE g2
    IN  Rat((x[1] \div a) * (y[1] \div b), (x[2] \div b) * (y[2] \div a))

RInv(x) == Rat(x[2], x[1])
RDiv(x, y) == RMul(x, RInv(y))
RAdd(x, y) == Rat(x[1] * y[2] + y[1] * x[2], x[2] * y[2])
RSub(x, y) == Rat(x[1] * y[2] - y[1] * x[2], x[2] * y[2])
RLess(x, y) == x[1] * y[2] < y[1] * x[2]

----------------------------------------------------------------------------
(* ActivityStatisticUnit and the conversion table of convertValue.         *)

Seconds == "s"
Milliseconds == "ms"
Meters == "m"
Kilometers == "km"
Feet == "f"
Yards == "yd"
Miles == "mi"
DegreesCelcius == "C"
DegreesFahrenheit == "F"
KilometersPerHour == "km/h"
HectometersPerHour == "hm/h"
MetersPerSecond == "m/s"
MilesPerHour == "mph"
HundredYardsPerHour == "hydph"
BeatsPerMinute == "BPM"
RevolutionsPerMinute == "RPM"
StepsPerMinute == "SPM"
DoubledStepsPerMinute == "2SPM"
Strides == "strides"
Kilocalories == "kcal"
Kilojoules == "kj"
Watts == "W"

ActivityStatisticUnit ==
    { Seconds, Milliseconds, Meters, Kilometers, Feet, Yards, Miles,
      DegreesCelcius, DegreesFahrenheit, KilometersPerHour, HectometersPerHour,
      MetersPerSecond, MilesPerHour, HundredYardsPerHour, BeatsPerMinute,
      RevolutionsPerMinute, StepsPerMinute, DoubledStepsPerMinute, Strides,
      Kilocalories, Kilojoules, Watts }

\* The dict of convertValue, in source order.  kind "scalar" is a float or
\* int factor, kind "tuple" the (forward, inverse) pair of lambdas.
conversions ==
    << [key |-> <<KilometersPerHour, HectometersPerHour>>, kind |-> "scalar", factor |-> Rat(10, 1)],
       [key |-> <<KilometersPerHour, MilesPerHour>>, kind |-> "scalar", factor |-> Rat(621371, 1000000)],
       [key |-> <<MilesPerHour, HundredYardsPerHour>>, kind |-> "scalar", factor |-> Rat(176, 10)],
       [key |-> <<MetersPerSecond, KilometersPerHour>>, kind |-> "scalar", factor |-> Rat(36, 10)],
       [key |-> <<DegreesCelcius, DegreesFahrenheit>>, kind |-> "tuple", factor |-> Rat(0, 1)],
       [key |-> <<Kilometers, Meters>>, kind |-> "scalar", factor |-> Rat(1000, 1)],
       [key |-> <<Meters, Feet>>, kind |-> "scalar", factor |-> Rat(3281, 1000)],
       [key |-> <<Meters, Yards>>, kind |-> "scalar", factor |-> Rat(109361, 100000)],
       [key |-> <<Miles, Feet>>, kind |-> "scalar", factor |-> Rat(5280, 1)],
       [key |-> <<Kilocalories, Kilojoules>>, kind |-> "scalar", factor |-> Rat(4184, 1000)],
       [key |-> <<StepsPerMinute, DoubledStepsPerMinute>>, kind |-> "scalar", factor |-> Rat(2, 1)] >>

NumConversions == Len(conversions)

\* lambda C: C*9/5 + 32 and lambda F: (F-32) * 5/9
CelciusToFahrenheit(C) == RAdd(RDiv(RMul(C, RInt(9)), RInt(5)), RInt(32))
FahrenheitToCelcius(F) == RDiv(RMul(RSub(F, RInt(32)), RInt(5)), RInt(9))

\* conversions.keys() yields the keys in the dict's order: insertion order
\* on current interpreters, an arbitrary order on the older ones.  The model
\* takes the source order, its reverse and one rotation.
SourceOrder == [i \in 1..NumConversions |-> i]
ReverseOrder == [i \in 1..NumConversions |-> NumConversions + 1 - i]
RotatedOrder == [i \in 1..NumConversions |-> ((i + 4) % NumConversions) + 1]
KeyOrders == {SourceOrder, ReverseOrder, RotatedOrder}

InTransform(unit, t) == unit = t[1] \/ unit = t[2]
InStack(t, stack) == \E i \in 1..Len(stack) : stack[i] = t

\* recurseFindConversionPath(unit, target, stack), with the for loop over
\* conversions.keys() unrolled from position i of the order.  The result is
\* <<"path", p>>, <<"none">> (the loop ran out: return None) or
\* <<"assert">> (assert(unit != target) failed).
RECURSIVE FindFromNoBacktrack(_, _, _, _, _)
FindFromNoBacktrack(unit, target, stack, order, i) ==
    IF i > NumConversions THEN <<"none">>
    ELSE LET transform == conversions[order[i]].key IN
         IF InTransform(unit, transform) /\ ~InStack(transform, stack)
         THEN IF InTransform(target, transform)
              THEN <<"path", Append(stack, transform)>>
              ELSE LET next_unit == IF transform[2] = unit THEN transform[1] ELSE transform[2]
                   IN  FindFromNoBacktrack(next_unit, target, Append(stack, transform), order, 1)
         ELSE FindFromNoBacktrack(unit, target, stack, order, i + 1)

RECURSIVE FindFrom(_, _, _, _, _)
FindFrom(unit, target, stack, order, i) ==
    IF i > NumConversions THEN <<"none">>
    ELSE LET transform == conversions[order[i]].key IN
         IF InTransform(unit, transform) /\ ~InStack(transform, stack)
         THEN IF InTransform(target, transform)
              THEN <<"path", Append(stack, transform)>>
              ELSE LET next_unit == IF transform[2] = unit THEN transform[1] ELSE transform[2]
                       result == IF next_unit = target THEN <<"assert">>
                                 ELSE FindFrom(next_unit, target, Append(stack, transform), order, 1)
                   IN  IF result[1] = "assert" THEN result
                       ELSE IF result[1] = "path" /\ Len(result[2]) > 0 THEN result
                       ELSE FindFrom(unit, target, stack, order, i + 1)
         ELSE FindFrom(unit, target, stack, order, i + 1)

recurseFindConversionPathNoAssert(unit, target, stack, order) ==
    FindFrom(unit, target, stack, order, 1)

recurseFindConversionPathNoBacktrack(unit, target, stack, order) ==
    IF unit = target THEN <<"assert">>
    ELSE FindFromNoBacktrack(unit, target, stack, order, 1)

recurseFindConversionPath(unit, target, stack, order) ==
    IF unit = target THEN <<"assert">>
    ELSE FindFrom(unit, target, stack, order, 1)

ConversionOf(transform) ==
    conversions[CHOOSE i \in 1..NumConversions : conversions[i].key = transform]

\* One iteration of the loop "for transform in conversionPath": st is
\* [value, from_units].
ApplyTransformNoInverse(st, transform) ==
    LET c == ConversionOf(transform) IN
    IF st.from_units = transform[1]
    THEN [value |-> IF c.kind = "scalar" THEN RMul(st.value, c.factor)
                    ELSE CelciusToFahrenheit(st.value),
          from_units |-> transform[2], dirs |-> Append(st.dirs, "forward")]
    ELSE [value |-> st.value,
          from_units |-> transform[1], dirs |-> Append(st.dirs, "inverse")]

\* dirs records, per transform, whether it was applied forward (multiply,
\* first lambda) or inverse (divide, second lambda).
ApplyTransform(st, transform) ==
    LET c == ConversionOf(transform) IN
    IF c.kind = "scalar"
    THEN IF st.from_units = transform[1]
         THEN [value |-> RMul(st.value, c.factor), from_units |-> transform[2],
               dirs |-> Append(st.dirs, "forward")]
         ELSE [value |-> RDiv(st.value, c.factor), from_units |-> transform[1],
               dirs |-> Append(st.dirs, "inverse")]
    ELSE IF st.from_units = transform[1]
         THEN [value |-> CelciusToFahrenheit(st.value), from_units |-> transform[2],
               dirs |-> Append(st.dirs, "forward")]
         ELSE [value |-> FahrenheitToCelcius(st.value), from_units |-> transform[1],
               dirs |-> Append(st.dirs, "inverse")]

RECURSIVE ApplyPath(_, _, _)
ApplyPath(st, path, i) ==
    IF i > Len(path) THEN st
    ELSE ApplyPath(ApplyTransform(st, path[i]), path, i + 1)

\* convertValue(value, from_units, to_units).  The result records how the
\* call ended: "ok" with the value and the unit the loop ended at,
\* "ValueError" (no conversion) or "AssertionError".
Converted(st, path) ==
    [end |-> "ok", value |-> st.value, unit |-> st.from_units,
     path |-> path, dirs |-> st.dirs]

\* the part of convertValue after the path search
convertAlong(value, from_units, conversionPath) ==
    IF conversionPath[1] = "assert"
    THEN [end |-> "AssertionError", value |-> None, unit |-> from_units,
          path |-> <<>>, dirs |-> <<>>]
    ELSE IF conversionPath[1] = "none"
    THEN [end |-> "ValueError", value |-> None, unit |-> from_units,
          path |-> <<>>, dirs |-> <<>>]
    ELSE Converted(ApplyPath([value |-> value, from_units |-> from_units, dirs |-> <<>>],
                             conversionPath[2], 1),
                   conversionPath[2])

convertValue(value, from_units, to_units, order) ==
    convertAlong(value, from_units,
                 recurseFindConversionPath(from_units, to_units, <<>>, order))

----------------------------------------------------------------------------
(* ActivityStatistic: objects live in objs, their _samples dicts in        *)
(* stores.  Two objects with the same sid share one _samples dict.         *)

Items == {"Value", "Max", "Min", "Average", "Gain", "Loss"}
\* items = ["Value", "Max", "Min", "Average", "Gain", "Loss"]
ItemList == <<"Value", "Max", "Min", "Average", "Gain", "Loss">>
\* summable_items = ["Value", "Gain", "Loss"]
SummableItems == <<"Value", "Gain", "Loss">>

NoFields == [item \in Items |-> None]

\* ActivityStatistic.__init__: the sample count of a field is 1 when the
\* argument is given, else 0.
InitSamples(f) == [item \in Items |-> IF f[item] # None THEN 1 ELSE 0]

\* convertUnitsInDict: every value that is not None is converted; the first
\* failing convertValue ends the call.
ConvertedDict(f, conv) ==
    IF \E item \in Items : conv[item].end # "ok"
    THEN [end |-> conv[CHOOSE item \in Items : conv[item].end # "ok"].end, f |-> f]
    ELSE [end |-> "ok", f |-> [item \in Items |-> conv[item].value]]

Skipped == [end |-> "ok", value |-> None, unit |-> "", path |-> <<>>, dirs |-> <<>>]

convertUnitsInDict(f, from_units, to_units, order) ==
    ConvertedDict(f, [item \in Items |->
                        IF f[item] = None THEN Skipped
                        ELSE convertValue(f[item], from_units, to_units, order)])

\* asUnits(self, units) on the object o of heap O: the same object when the
\* units are equal, else a new object that holds the converted fields and
\* the SAME _samples dict (newStat._samples = self._samples).
AsUnitsCopy(c, units, sid) ==
    [end |-> c.end, same |-> FALSE, Units |-> units, f |-> c.f, sid |-> sid]

asUnits(O, S, o, units, order) ==
    IF units = O[o].Units
    THEN [end |-> "ok", same |-> TRUE, Units |-> units, f |-> O[o].f, sid |-> O[o].sid]
    ELSE AsUnitsCopy(convertUnitsInDict(O[o].f, O[o].Units, units, order), units, O[o].sid)

\* The state a merge loop works on: my_items (F) and all _samples dicts (S).
\* other_items is my_items itself when stat is self.
OtherItems(F, stat, isSelf) == IF isSelf THEN F ELSE stat.f

coalesceItemKeepsCount(st, item, msid, stat, isSelf) ==
    LET other == OtherItems(st.F, stat, isSelf)[item]
        osid == stat.sid
        S1 == [st.S EXCEPT ![osid][item] = IF @ # 0 THEN @ ELSE 1]
    IN  IF other = None THEN st
        ELSE IF st.F[item] = None
        THEN [F |-> [st.F EXCEPT ![item] = other],
              S |-> [S1 EXCEPT ![msid][item] = S1[osid][item]]]
        ELSE [F |-> [st.F EXCEPT ![item] =
                        RAdd(@, RDiv(RSub(other, @),
                                     RAdd(RInt(S1[msid][item]), Rat(1, S1[osid][item]))))],
              S |-> S1]

\* coalesceWith, one iteration of "for item in items".
coalesceItem(st, item, msid, stat, isSelf) ==
    LET other == OtherItems(st.F, stat, isSelf)[item]
        osid == stat.sid
        S1 == [st.S EXCEPT ![osid][item] = IF @ # 0 THEN @ ELSE 1]
    IN  IF other = None THEN st
        ELSE IF st.F[item] = None
        THEN [F |-> [st.F EXCEPT ![item] = other],
              S |-> [S1 EXCEPT ![msid][item] = S1[osid][item]]]
        ELSE [F |-> [st.F EXCEPT ![item] =
                        RAdd(@, RDiv(RSub(other, @),
                                     RAdd(RInt(S1[msid][item]), Rat(1, S1[osid][item]))))],
              S |-> [S1 EXCEPT ![msid][item] = S1[msid][item] + S1[osid][item]]]

RECURSIVE coalesceLoop(_, _, _, _, _)
coalesceLoop(st, i, msid, stat, isSelf) ==
    IF i > Len(ItemList) THEN st
    ELSE coalesceLoop(coalesceItem(st, ItemList[i], msid, stat, isSelf), i + 1, msid, stat, isSelf)

\* sumWith, one iteration of "for item in summable_items".
sumItem(st, item, msid, stat, isSelf) ==
    LET other == OtherItems(st.F, stat, isSelf)[item] IN
    IF other = None THEN st
    ELSE IF st.F[item] # None
    THEN [F |-> [st.F EXCEPT ![item] = RAdd(@, other)],
          S |-> [st.S EXCEPT ![msid][item] = 1]]
    ELSE [F |-> [st.F EXCEPT ![item] = other],
          S |-> [st.S EXCEPT ![msid][item] = st.S[stat.sid][item]]]

RECURSIVE sumLoop(_, _, _, _, _)
sumLoop(st, i, msid, stat, isSelf) ==
    IF i > Len(SummableItems) THEN st
    ELSE sumLoop(sumItem(st, SummableItems[i], msid, stat, isSelf), i + 1, msid, stat, isSelf)

\* self.Average = None; self._samples["Average"] = 0
sumClearAverageKeep(st, msid) == st
sumClearAverage(st, msid) ==
    [F |-> [st.F EXCEPT !["Average"] = None],
     S |-> [st.S EXCEPT ![msid]["Average"] = 0]]

\* the two "if self.Max is None or ..." / "if self.Min is None or ..." blocks
sumExtreme(st, item, msid, stat, isSelf) ==
    LET other == OtherItems(st.F, stat, isSelf)[item]
        better == IF other = None THEN FALSE
                  ELSE IF item = "Max" THEN RLess(st.F[item], other)
                  ELSE RLess(other, st.F[item])
    IN  IF st.F[item] = None \/ better
        THEN [F |-> [st.F EXCEPT ![item] = other],
              S |-> [st.S EXCEPT ![msid][item] = st.S[stat.sid][item]]]
        ELSE st

\* update, one iteration of "for item in items".
updateItem(st, item, msid, stat, isSelf) ==
    LET other == OtherItems(st.F, stat, isSelf)[item] IN
    IF other = None THEN st
    ELSE [F |-> [st.F EXCEPT ![item] = other],
          S |-> [st.S EXCEPT ![msid][item] = st.S[stat.sid][item]]]

RECURSIVE updateLoop(_, _, _, _, _)
updateLoop(st, i, msid, stat, isSelf) ==
    IF i > Len(ItemList) THEN st
    ELSE updateLoop(updateItem(st, ItemList[i], msid, stat, isSelf), i + 1, msid, stat, isSelf)

\* The three merge methods on objects self and other of the heap (O, S):
\* stat = stat.asUnits(self.Units) first; when that raises nothing changes.
\* The result is [end, O, S, stat].
MergeResult(O, S, self, stat, st) ==
    [end |-> "ok", O |-> [O EXCEPT ![self].f = st.F], S |-> st.S, stat |-> stat]

Raised(O, S, stat) == [end |-> stat.end, O |-> O, S |-> S, stat |-> stat]

IsSelf(stat, self, other) == stat.same /\ other = self

coalesceWithStat(O, S, self, other, stat) ==
    IF stat.end # "ok" THEN Raised(O, S, stat)
    ELSE MergeResult(O, S, self, stat,
             coalesceLoop([F |-> O[self].f, S |-> S], 1, O[self].sid, stat,
                          IsSelf(stat, self, other)))

coalesceWith(O, S, self, other, order) ==
    coalesceWithStat(O, S, self, other, asUnits(O, S, other, O[self].Units, order))

sumWithStat(O, S, self, other, stat) ==
    IF stat.end # "ok" THEN Raised(O, S, stat)
    ELSE MergeResult(O, S, self, stat,
             sumExtreme(
                 sumExtreme(
                     sumClearAverage(
                         sumLoop([F |-> O[self].f, S |-> S], 1, O[self].sid, stat,
                                 IsSelf(stat, self, other)),
                         O[self].sid),
                     "Max", O[self].sid, stat, IsSelf(stat, self, other)),
                 "Min", O[self].sid, stat, IsSelf(stat, self, other)))

sumWith(O, S, self, other, order) ==
    sumWithStat(O, S, self, other, asUnits(O, S, other, O[self].Units, order))

updateWithStat(O, S, self, other, stat) ==
    IF stat.end # "ok" THEN Raised(O, S, stat)
    ELSE MergeResult(O, S, self, stat,
             updateLoop([F |-> O[self].f, S |-> S], 1, O[self].sid, stat,
                        IsSelf(stat, self, other)))

update(O, S, self, other, order) ==
    updateWithStat(O, S, self, other, asUnits(O, S, other, O[self].Units, order))

----------------------------------------------------------------------------
(* ActivityStatistics: the twelve named statistics of an activity or lap.  *)
(* A statistic of a set is the value [Units, f, samples]; the merge methods *)
(* run on a heap made of the two operands.                                 *)

\* _statKeyList
statKeyList == << "Distance", "TimerTime", "MovingTime", "Energy", "Speed", "Elevation",
                  "HR", "Cadence", "RunCadence", "Strides", "Temperature", "Power" >>
StatKeys == {statKeyList[i] : i \in 1..Len(statKeyList)}

\* the unit ActivityStatistics.__init__ gives each statistic
DefaultUnit(key) ==
    CASE key = "Distance" -> Meters
      [] key = "TimerTime" -> Seconds
      [] key = "MovingTime" -> Seconds
      [] key = "Energy" -> Kilocalories
      [] key = "Speed" -> KilometersPerHour
      [] key = "Elevation" -> Meters
      [] key = "HR" -> BeatsPerMinute
      [] key = "Cadence" -> RevolutionsPerMinute
      [] key = "RunCadence" -> StepsPerMinute
      [] key = "Strides" -> Strides
      [] key = "Temperature" -> DegreesCelcius
      [] key = "Power" -> Watts

Statistic(units, f) == [Units |-> units, f |-> f, samples |-> InitSamples(f)]

\* ActivityStatistics() with no argument given
ActivityStatistics == [key \in StatKeys |-> Statistic(DefaultUnit(key), NoFields)]

\* Lap(stats=...)
Lap(stats) == [StartTime |-> None, EndTime |-> None, Stats |-> stats, Waypoints |-> <<>>]

AsObject(stat, sid) == [Units |-> stat.Units, f |-> stat.f, sid |-> sid]

SumResult(a, r) ==
    IF r.end # "ok" THEN [end |-> r.end, stat |-> a]
    ELSE [end |-> "ok", stat |-> [Units |-> a.Units, f |-> r.O[1].f, samples |-> r.S[1]]]

\* a.sumWith(b) for statistics a, b of two different sets
StatisticSumWith(a, b, order) ==
    SumResult(a, sumWith(<<AsObject(a, 1), AsObject(b, 2)>>, <<a.samples, b.samples>>,
                         1, 2, order))

SumStep(st, key, r) ==
    IF r.end # "ok" THEN [end |-> r.end, stats |-> st.stats]
    ELSE [end |-> "ok", stats |-> [st.stats EXCEPT ![key] = r.stat]]

\* ActivityStatistics.sumWith: for stat in _statKeyList; a raising sumWith
\* ends the loop.
RECURSIVE StatsSumLoop(_, _, _, _)
StatsSumLoop(st, other_stats, i, order) ==
    IF i > Len(statKeyList) \/ st.end # "ok" THEN st
    ELSE StatsSumLoop(
             SumStep(st, statKeyList[i],
                     StatisticSumWith(st.stats[statKeyList[i]], other_stats[statKeyList[i]], order)),
             other_stats, i + 1, order)

StatsSumWith(stats, other_stats, order) ==
    StatsSumLoop([end |-> "ok", stats |-> stats], other_stats, 1, order)

\* ranges of _cleanStatsObj, in source order
ranges ==
    << [key |-> "Power", unit |-> Watts, lo |-> 0, hi |-> 5000],
       [key |-> "Speed", unit |-> KilometersPerHour, lo |-> 0, hi |-> 150],
       [key |-> "Elevation", unit |-> Meters, lo |-> -500, hi |-> 8850],
       [key |-> "HR", unit |-> BeatsPerMinute, lo |-> 15, hi |-> 300],
       [key |-> "Cadence", unit |-> RevolutionsPerMinute, lo |-> 0, hi |-> 255],
       [key |-> "RunCadence", unit |-> StepsPerMinute, lo |-> 0, hi |-> 255],
       [key |-> "Strides", unit |-> Strides, lo |-> 1, hi |-> 9999999],
       [key |-> "Temperature", unit |-> DegreesCelcius, lo |-> -62, hi |-> 50],
       [key |-> "Energy", unit |-> Kilocalories, lo |-> 1, hi |-> 65535],
       [key |-> "Distance", unit |-> Kilometers, lo |-> 0, hi |-> 1000] >>

\* checkFields = ["Average", "Max", "Min", "Value"]
checkFields == <<"Average", "Max", "Min", "Value">>
CheckFieldSet == {checkFields[i] : i \in 1..Len(checkFields)}

\* value < ranges[key][1] or value > ranges[key][2]
OutOfRangeAboveOnly(value, range) == RLess(RInt(range.hi), value)
OutOfRange(value, range) ==
    RLess(value, RInt(range.lo)) \/ RLess(RInt(range.hi), value)

\* the loop "for field in checkFields" on the original statistic; conv is
\* the asUnits copy's fields
CleanFields(stat, conv, range) ==
    [Units |-> stat.Units,
     f |-> [item \in Items |->
              IF item \in CheckFieldSet /\ conv[item] # None /\ OutOfRange(conv[item], range)
              THEN None ELSE stat.f[item]],
     samples |-> [item \in Items |->
              IF item \in CheckFieldSet /\ conv[item] # None /\ OutOfRange(conv[item], range)
              THEN 0 ELSE stat.samples[item]]]

CleanStep(st, range, copy) ==
    IF copy.end # "ok" THEN [end |-> copy.end, stats |-> st.stats]
    ELSE [end |-> "ok",
          stats |-> [st.stats EXCEPT ![range.key] = CleanFields(@, copy.f, range)]]

\* _cleanStatsObj(stats): for key in ranges; a raising asUnits ends it.
RECURSIVE CleanLoop(_, _, _)
CleanLoop(st, i, order) ==
    IF i > Len(ranges) \/ st.end # "ok" THEN st
    ELSE CleanLoop(
             CleanStep(st, ranges[i],
                       asUnits(<<AsObject(st.stats[ranges[i].key], 1)>>,
                               <<st.stats[ranges[i].key].samples>>, 1, ranges[i].unit, order)),
             i + 1, order)

cleanStatsObj(stats, order) == CleanLoop([end |-> "ok", stats |-> stats], 1, order)

CleanLapStep(st, i, r) ==
    [end |-> r.end, Stats |-> st.Stats, Laps |-> [st.Laps EXCEPT ![i].Stats = r.stats]]

RECURSIVE CleanLaps(_, _, _)
CleanLaps(st, i, order) ==
    IF i > Len(st.Laps) \/ st.end # "ok" THEN st
    ELSE CleanLaps(CleanLapStep(st, i, cleanStatsObj(st.Laps[i].Stats, order)), i + 1, order)

CleanOwn(r, laps) == [end |-> r.end, Stats |-> r.stats, Laps |-> laps]

\* Activity.CleanStats: self.Stats, then every lap's Stats
CleanStats(stats, laps, order) ==
    CleanLaps(CleanOwn(cleanStatsObj(stats, order), laps), 1, order)

----------------------------------------------------------------------------
(* Calls.                                                                  *)

Idle == [end |-> "idle", value |-> None, unit |-> "", path |-> <<>>, dirs |-> <<>>]

NoCall == [op |-> "none", self |-> 0, other |-> 0, units |-> "", end |-> "",
           O |-> <<>>, S |-> <<>>, statF |-> NoFields, statSid |-> 0]

\* ActivityStatistic(units, value=..., avg=..., ...): a new object with its
\* own _samples dict.
NewStatistic(units, f, sid) == [Units |-> units, f |-> f, sid |-> sid]

\* ActivityStatistic.convertValue(inVal, inFrom, inTo)
CallConvertValue ==
    /\ cv.end = "idle"
    /\ cv' = convertValue(inVal, inFrom, inTo, edgeOrder)
    /\ UNCHANGED <<inFrom, inTo, inVal, back, edgeOrder, statVars, actVars, restVars>>

\* ... and the result converted back: convertValue(cv.value, inTo, inFrom)
CallConvertBack ==
    /\ cv.end = "ok"
    /\ back.end = "idle"
    /\ back' = convertValue(cv.value, inTo, inFrom, edgeOrder)
    /\ UNCHANGED <<inFrom, inTo, inVal, cv, edgeOrder, statVars, actVars, restVars>>

\* o.asUnits(units), the caller keeping the returned reference
Returned(o, units, r) ==
    /\ last' = [NoCall EXCEPT !.op = "asUnits", !.self = o, !.units = units,
                              !.end = r.end, !.O = objs, !.S = stores]
    /\ nops' = nops + 1
    /\ IF r.end # "ok" THEN ret' = 0 /\ UNCHANGED <<objs, stores>>
       ELSE IF r.same THEN ret' = o /\ UNCHANGED <<objs, stores>>
       ELSE /\ objs' = Append(objs, NewStatistic(r.Units, r.f, r.sid))
            /\ ret' = Len(objs) + 1
            /\ UNCHANGED stores
    /\ UNCHANGED <<convVars, edgeOrder, actVars, restVars>>

CallAsUnits(o, units) == Returned(o, units, asUnits(objs, stores, o, units, edgeOrder))

Merged(op, self, other, r) ==
    /\ last' = [NoCall EXCEPT !.op = op, !.self = self, !.other = other,
                              !.units = objs[self].Units, !.end = r.end,
                              !.O = objs, !.S = stores,
                              !.statF = r.stat.f, !.statSid = r.stat.sid]
    /\ nops' = nops + 1
    /\ objs' = r.O
    /\ stores' = r.S
    /\ UNCHANGED <<ret, convVars, edgeOrder, actVars, restVars>>

CallCoalesceWith(self, other) ==
    Merged("coalesceWith", self, other, coalesceWith(objs, stores, self, other, edgeOrder))

CallSumWith(self, other) ==
    Merged("sumWith", self, other, sumWith(objs, stores, self, other, edgeOrder))

CallUpdate(self, other) ==
    Merged("update", self, other, update(objs, stores, self, other, edgeOrder))

\* A call: arg is the lap index of sumWith, loc and recalculate the arguments
\* of CalculateTZ, now the value of datetime.now() in CheckSanity; end is how
\* it ended, msg the exception's message (or the path CalculateTZ took), used
\* the location CalculateTZ resolved from.
ActivityCall(op, arg, end) ==
    [op |-> op, arg |-> arg, end |-> end, msg |-> "", loc |-> None,
     recalculate |-> FALSE, used |-> None, now |-> 0]

NoActivityCall == ActivityCall("none", 0, "")
NoSnapshot ==
    [Stats |-> ActivityStatistics, Laps |-> <<>>, TZ |-> None, tz_cache |-> <<>>,
     StartTime |-> None, EndTime |-> None, UID |-> None]
Snapshot ==
    [Stats |-> Stats, Laps |-> Laps, TZ |-> TZ, tz_cache |-> tz_cache,
     StartTime |-> StartTime, EndTime |-> EndTime, UID |-> UID]

NoPeer == [StartTime |-> None, TZ |-> None, UID |-> None, called |-> FALSE]

MoreIdle ==
    /\ UID = None
    /\ peer = NoPeer
    /\ callers = <<>>
    /\ events = <<>>

RestIdle ==
    /\ StartTime = None
    /\ EndTime = None
    /\ Stationary = None
    /\ TZ = None
    /\ FallbackTZ = None
    /\ tz_cache = <<>>
    /\ types = <<>>
    /\ picked = None
    /\ MoreIdle

ActIdle ==
    /\ Stats = ActivityStatistics
    /\ Laps = <<>>
    /\ focus = "none"
    /\ summed = {}
    /\ call = NoActivityCall
    /\ pre = NoSnapshot
    /\ RestIdle

Summed(i, r) ==
    /\ Stats' = r.stats
    /\ call' = ActivityCall("sumWith", i, r.end)
    /\ pre' = Snapshot
    /\ summed' = summed \cup {i}
    /\ UNCHANGED <<Laps, focus, convVars, edgeOrder, statVars, restVars>>

\* self.Stats.sumWith(self.Laps[i].Stats)
CallStatsSumWith(i) == Summed(i, StatsSumWith(Stats, Laps[i].Stats, edgeOrder))

Cleaned(r) ==
    /\ Stats' = r.Stats
    /\ Laps' = r.Laps
    /\ call' = ActivityCall("CleanStats", 0, r.end)
    /\ pre' = Snapshot
    /\ UNCHANGED <<focus, summed, convVars, edgeOrder, statVars, restVars>>

\* self.CleanStats()
CallCleanStats == Cleaned(CleanStats(Stats, Laps, edgeOrder))

----------------------------------------------------------------------------
(* SpecConv: convertValue and asUnits on every pair of unit tokens.        *)

ConvVals == {Rat(1, 1), Rat(5, 2), Rat(-40, 1)}

StatIdle ==
    /\ ret = 0
    /\ last = NoCall
    /\ nops = 0

InitConv ==
    /\ inFrom \in ActivityStatisticUnit
    /\ inTo \in ActivityStatisticUnit
    /\ inVal \in ConvVals
    /\ edgeOrder \in KeyOrders
    /\ cv = Idle
    /\ back = Idle
    /\ objs = << NewStatistic(inFrom, [NoFields EXCEPT !["Value"] = inVal], 1) >>
    /\ stores = << InitSamples([NoFields EXCEPT !["Value"] = inVal]) >>
    /\ StatIdle
    /\ ActIdle

\* objs[1].asUnits(inTo)
CallAsUnitsOnce ==
    /\ last.op = "none"
    /\ CallAsUnits(1, inTo)

NextConv ==
    \/ CallConvertValue
    \/ CallConvertBack
    \/ CallAsUnitsOnce

SpecConv == InitConv /\ [][NextConv]_vars

\* The units joined to unit u by edges of the table, computed as a fixpoint
\* (independently of the depth-first search).
RECURSIVE Component(_)
Component(set) ==
    LET more == set \cup {u \in ActivityStatisticUnit :
                    \E i \in 1..NumConversions, v \in set :
                        InTransform(u, conversions[i].key) /\ InTransform(v, conversions[i].key)}
    IN  IF more = set THEN set ELSE Component(more)

Connected(a, b) == b \in Component({a})

\* p is a walk from a to b along table edges that uses no edge twice.
RECURSIVE WalkEnd(_, _, _)
WalkEnd(a, p, i) ==
    IF i > Len(p) THEN a
    ELSE IF ~InTransform(a, p[i]) THEN "?"
    ELSE WalkEnd(IF p[i][1] = a THEN p[i][2] ELSE p[i][1], p, i + 1)

IsPath(a, b, p) ==
    /\ Len(p) >= 1
    /\ Len(p) <= NumConversions
    /\ \A i \in 1..Len(p) : \E k \in 1..NumConversions : conversions[k].key = p[i]
    /\ \A i, j \in 1..Len(p) : i # j => p[i] # p[j]
    /\ WalkEnd(a, p, 1) = b

Reversed(p) == [i \in 1..Len(p) |-> p[Len(p) + 1 - i]]
Flipped(d) == [i \in 1..Len(d) |-> IF d[i] = "forward" THEN "inverse" ELSE "forward"]

(* C2, as claimed: converting from a unit to the same unit returns the value
   unchanged and raises no error, through asUnits and through convertValue. *)
C2_SameUnitUnchanged ==
    inFrom = inTo =>
        /\ (cv.end # "idle" => cv.end = "ok" /\ cv.value = inVal)
        /\ (last.op = "asUnits" =>
                last.end = "ok" /\ ret = 1 /\ objs = last.O /\ stores = last.S)

(* C2, amended: asUnits with the statistic's own unit returns the statistic
   itself, nothing changed and no error, for every unit token; convertValue
   called with from_units == to_units returns no value: the path search's
   assert(unit != target) fails. *)
C2_SameUnitAsUnitsOnly ==
    inFrom = inTo =>
        /\ (cv.end # "idle" => cv.end = "AssertionError" /\ cv.value = None)
        /\ (last.op = "asUnits" =>
                /\ last.end = "ok" /\ ret = 1
                /\ objs = last.O /\ stores = last.S
                /\ objs[1].f["Value"] = inVal /\ objs[1].Units = inFrom)

C2_Witness ==
    /\ inFrom = inTo
    /\ cv.end = "AssertionError"
    /\ last.op = "asUnits" /\ ret = 1

(* C3: for distinct units the path search ends, and the conversion succeeds,
   ending at the target unit along a path of distinct table edges, exactly
   when the units are connected in the table; otherwise it fails with the
   conversion error (ValueError) and returns no value. *)
C3_ConvertsIffConnected ==
    (inFrom # inTo /\ cv.end # "idle") =>
        /\ cv.end \in {"ok", "ValueError"}
        /\ cv.end = "ok" <=> Connected(inFrom, inTo)
        /\ cv.end = "ok" => cv.unit = inTo /\ IsPath(inFrom, inTo, cv.path) /\ cv.value # None
        /\ cv.end = "ValueError" => cv.value = None

C3_Witness ==
    /\ inFrom = Meters /\ inTo = Watts
    /\ cv.end = "ValueError"

C3_WitnessConnected ==
    /\ inFrom = Miles /\ inTo = Yards
    /\ cv.end = "ok" /\ Len(cv.path) = 3

(* C4: for connected units A, B the value converted from A to B and back
   from B to A is the value started from (exact arithmetic); the path found
   back is the reverse of the path found forth and every edge is applied in
   the opposite direction. *)
C4_RoundTrip ==
    (cv.end = "ok" /\ back.end # "idle") =>
        /\ back.end = "ok"
        /\ back.value = inVal
        /\ back.unit = inFrom
        /\ back.path = Reversed(cv.path)
        /\ back.dirs = Flipped(Reversed(cv.dirs))

C4_Witness ==
    /\ inFrom = Miles /\ inTo = Yards
    /\ back.end = "ok" /\ back.value = inVal
    /\ cv.dirs = <<"forward", "inverse", "forward">>

C4_WitnessTemperature ==
    /\ inFrom = DegreesFahrenheit /\ inTo = DegreesCelcius
    /\ inVal = Rat(5, 2)
    /\ back.end = "ok" /\ cv.value # inVal

----------------------------------------------------------------------------
(* SpecStat: two statistics built by the constructor, then any calls of    *)
(* asUnits, coalesceWith, sumWith and update on them and on the copies     *)
(* asUnits returned.                                                       *)

MaxOps == 2

StatUnits == {Meters, Kilometers, Seconds}
PresentSets == { {}, {"Value"}, {"Average", "Max"}, Items }
SelfValue == Rat(10, 1)
OtherValue == Rat(20, 1)

Fields(present, v) == [item \in Items |-> IF item \in present THEN v ELSE None]

ConvIdle ==
    /\ inFrom = Meters
    /\ inTo = Meters
    /\ inVal = Rat(1, 1)
    /\ cv = Idle
    /\ back = Idle

InitStat ==
    /\ ConvIdle
    /\ edgeOrder = SourceOrder
    /\ \E ps, po \in PresentSets, uo \in StatUnits :
          /\ objs = << NewStatistic(Meters, Fields(ps, SelfValue), 1),
                       NewStatistic(uo, Fields(po, OtherValue), 2) >>
          /\ stores = << InitSamples(Fields(ps, SelfValue)),
                         InitSamples(Fields(po, OtherValue)) >>
    /\ StatIdle
    /\ ActIdle

StatAsUnits ==
    /\ nops < MaxOps
    /\ \E o \in 1..Len(objs), u \in StatUnits : CallAsUnits(o, u)

StatCoalesceWith ==
    /\ nops < MaxOps
    /\ \E self, other \in 1..Len(objs) : CallCoalesceWith(self, other)

StatSumWith ==
    /\ nops < MaxOps
    /\ \E self, other \in 1..Len(objs) : CallSumWith(self, other)

StatUpdate ==
    /\ nops < MaxOps
    /\ \E self, other \in 1..Len(objs) : CallUpdate(self, other)

NextStat ==
    \/ StatAsUnits
    \/ StatCoalesceWith
    \/ StatSumWith
    \/ StatUpdate

SpecStat == InitStat /\ [][NextStat]_vars

Present(o, item) == objs[o].f[item] # None
Samples(o, item) == stores[objs[o].sid][item]

(* C5: every field of every statistic is present if and only if its sample
   count is greater than 0. *)
C5_PresentIffSampled ==
    \A o \in 1..Len(objs) : \A item \in Items :
        Present(o, item) <=> Samples(o, item) > 0

(* C6: after coalesceWith, per field: other's field (in self's unit) absent
   leaves self's field and count as they were; present with self's field
   absent, self has other's value and other's count; present on both, self's
   value is value + (other - value) / (samples + 1/other samples) and self's
   count is the sum of the counts.  10 (count 1) with 20 (count 1) gives 15
   (count 2). *)
C6_Coalesce ==
    (last.op = "coalesceWith" /\ last.end = "ok") =>
        \A item \in Items :
            LET other == last.statF[item]
                mine == last.O[last.self].f[item]
                mySamples == last.S[last.O[last.self].sid][item]
                otherSamples == last.S[last.statSid][item]
                now == objs[last.self].f[item]
                nowSamples == Samples(last.self, item)
            IN  /\ other = None => now = mine /\ nowSamples = mySamples
                /\ (other # None /\ otherSamples > 0 /\ mine = None) =>
                        now = other /\ nowSamples = otherSamples
                /\ (other # None /\ otherSamples > 0 /\ mine # None) =>
                        /\ now = RAdd(mine, RDiv(RSub(other, mine),
                                        RAdd(RInt(mySamples), Rat(1, otherSamples))))
                        /\ nowSamples = mySamples + otherSamples
                /\ (mine = Rat(10, 1) /\ mySamples = 1 /\ other = Rat(20, 1) /\ otherSamples = 1) =>
                        now = Rat(15, 1) /\ nowSamples = 2

C6_Witness ==
    /\ last.op = "coalesceWith" /\ last.end = "ok"
    /\ last.O[last.self].f["Value"] = Rat(10, 1)
    /\ last.S[last.O[last.self].sid]["Value"] = 1
    /\ last.statF["Value"] = Rat(20, 1)
    /\ last.S[last.statSid]["Value"] = 1
    /\ objs[last.self].f["Value"] = Rat(15, 1)
    /\ Samples(last.self, "Value") = 2

----------------------------------------------------------------------------
(* SpecSet: an activity and its laps, each with a statistics set in which  *)
(* the statistic of one metric (focus) was filled in by the ingestion;     *)
(* then the laps' sets are summed into the activity's and CleanStats runs. *)

MaxLaps == 1

\* The range a metric's values are drawn around (TimerTime and MovingTime
\* have none in _cleanStatsObj).
RangeOf(key) ==
    IF \E i \in 1..Len(ranges) : ranges[i].key = key
    THEN ranges[CHOOSE i \in 1..Len(ranges) : ranges[i].key = key]
    ELSE [key |-> key, unit |-> DefaultUnit(key), lo |-> 0, hi |-> 0]

Listed(key) == \E i \in 1..Len(ranges) : ranges[i].key = key

\* a second unit some sources report the metric in
AltUnit(key) ==
    CASE key = "Distance" -> Miles
      [] key = "Speed" -> MetersPerSecond
      [] key = "Elevation" -> Feet
      [] key = "Temperature" -> DegreesFahrenheit
      [] key = "Energy" -> Kilojoules
      [] key = "RunCadence" -> DoubledStepsPerMinute
      [] OTHER -> DefaultUnit(key)

Classes == {"none", "low", "atlow", "athigh", "high"}

ClassValue(range, class) ==
    CASE class = "low" -> RInt(range.lo - 1)
      [] class = "atlow" -> RInt(range.lo)
      [] class = "athigh" -> RInt(range.hi)
      [] class = "high" -> RInt(range.hi + 1)

\* the value that is v of the range's unit, expressed in unit
InUnit(v, range, unit) ==
    IF unit = range.unit THEN v
    ELSE convertValue(v, range.unit, unit, SourceOrder).value

NoClasses == [item \in Items |-> "none"]

TemplateFields(key, unit, t) ==
    [item \in Items |->
        IF t[item] = "none" THEN None
        ELSE InUnit(ClassValue(RangeOf(key), t[item]), RangeOf(key), unit)]

WithGainLoss(t) ==
    IF t = NoClasses THEN t ELSE [t EXCEPT !["Gain"] = "high", !["Loss"] = "low"]

\* every choice of a class for up to two of the four checked fields
ClassChoices ==
    { WithGainLoss([NoClasses EXCEPT ![a] = ca, ![b] = cb]) :
        a \in CheckFieldSet, b \in CheckFieldSet, ca \in Classes, cb \in Classes }

\* the example of the specification: HR Average=400, Max=180
ExampleHR == Statistic(BeatsPerMinute,
                 [NoFields EXCEPT !["Average"] = Rat(400, 1), !["Max"] = Rat(180, 1)])

ActivityTemplates(key) ==
    { Statistic(DefaultUnit(key), TemplateFields(key, DefaultUnit(key), t)) : t \in ClassChoices }
    \cup (IF key = "HR" THEN {ExampleHR} ELSE {})

LapTemplates(key) ==
    { Statistic(DefaultUnit(key), NoFields),
      Statistic(AltUnit(key), TemplateFields(key, AltUnit(key),
                    WithGainLoss([NoClasses EXCEPT !["Average"] = "high", !["Max"] = "athigh"]))),
      Statistic(DefaultUnit(key), TemplateFields(key, DefaultUnit(key),
                    WithGainLoss([NoClasses EXCEPT !["Value"] = "atlow", !["Min"] = "low"]))) }

InitSet ==
    /\ ConvIdle
    /\ edgeOrder = SourceOrder
    /\ objs = <<>>
    /\ stores = <<>>
    /\ StatIdle
    /\ focus \in StatKeys
    /\ \E a \in ActivityTemplates(focus) : Stats = [ActivityStatistics EXCEPT ![focus] = a]
    /\ \E n \in 0..MaxLaps :
          Laps \in [1..n -> {Lap([ActivityStatistics EXCEPT ![focus] = l]) : l \in LapTemplates(focus)}]
    /\ summed = {}
    /\ call = NoActivityCall
    /\ pre = NoSnapshot
    /\ RestIdle

SetSumWith ==
    /\ focus # "none"
    /\ \E i \in 1..Len(Laps) : i \notin summed /\ CallStatsSumWith(i)

SetCleanStats ==
    /\ focus # "none"
    /\ call.op # "CleanStats"
    /\ CallCleanStats

NextSet ==
    \/ SetSumWith
    \/ SetCleanStats

SpecSet == InitSet /\ [][NextSet]_vars

\* SpecSum: the statistics of SpecStat and the sets of SpecSet.
InitSum == InitStat \/ InitSet
NextSum == NextStat \/ NextSet
SpecSum == InitSum /\ [][NextSum]_vars

(* C7: after sumWith on a statistic, and after ActivityStatistics.sumWith on
   every statistic of the set, Average is absent and its count is 0. *)
C7_SumClearsAverage ==
    /\ (last.op = "sumWith" /\ last.end = "ok") =>
          /\ objs[last.self].f["Average"] = None
          /\ Samples(last.self, "Average") = 0
    /\ (call.op = "sumWith" /\ call.end = "ok") =>
          \A key \in StatKeys :
              /\ Stats[key].f["Average"] = None
              /\ Stats[key].samples["Average"] = 0

C7_Witness ==
    /\ call.op = "sumWith" /\ call.end = "ok"
    /\ pre.Stats[focus].f["Average"] # None
    /\ pre.Laps[call.arg].Stats[focus].f["Average"] # None
    /\ Stats[focus].f["Average"] = None
    /\ Stats[focus].samples["Average"] = 0

C7_WitnessStatistic ==
    /\ last.op = "sumWith" /\ last.end = "ok"
    /\ last.O[last.self].f["Average"] # None
    /\ last.statF["Average"] # None
    /\ objs[last.self].f["Average"] = None

\* value, held in units, as a number of the range's unit
Listing(value, units, range) ==
    IF units = range.unit THEN value
    ELSE convertValue(value, units, range.unit, SourceOrder).value

\* the field is one CleanStats has to strike out
Struck(stat, key, item) ==
    /\ Listed(key)
    /\ item \in CheckFieldSet
    /\ stat.f[item] # None
    /\ \/ RLess(Listing(stat.f[item], stat.Units, RangeOf(key)), RInt(RangeOf(key).lo))
       \/ RLess(RInt(RangeOf(key).hi), Listing(stat.f[item], stat.Units, RangeOf(key)))

CleanedAsClaimed(before, after) ==
    \A key \in StatKeys : \A item \in Items :
        /\ after[key].Units = before[key].Units
        /\ IF Struck(before[key], key, item)
           THEN after[key].f[item] = None /\ after[key].samples[item] = 0
           ELSE /\ after[key].f[item] = before[key].f[item]
                /\ after[key].samples[item] = before[key].samples[item]

(* C10: after CleanStats, in the activity's set and in every lap's set, each
   Value/Average/Min/Max of the ten listed metrics whose value in the listed
   unit is outside the inclusive range is absent with count 0; every other
   field (in range, Gain, Loss, TimerTime, MovingTime) is as it was. *)
C10_CleanStats ==
    (call.op = "CleanStats") =>
        /\ call.end = "ok"
        /\ CleanedAsClaimed(pre.Stats, Stats)
        /\ Len(Laps) = Len(pre.Laps)
        /\ \A i \in 1..Len(Laps) : CleanedAsClaimed(pre.Laps[i].Stats, Laps[i].Stats)

C10_Witness ==
    /\ call.op = "CleanStats"
    /\ pre.Stats["HR"].f["Average"] = Rat(400, 1)
    /\ pre.Stats["HR"].f["Max"] = Rat(180, 1)
    /\ Stats["HR"].f["Average"] = None /\ Stats["HR"].samples["Average"] = 0
    /\ Stats["HR"].f["Max"] = Rat(180, 1) /\ Stats["HR"].samples["Max"] = 1

C10_WitnessLap ==
    /\ call.op = "CleanStats"
    /\ focus = "Distance"
    /\ Len(Laps) = 1
    /\ pre.Laps[1].Stats[focus].Units = Miles
    /\ pre.Laps[1].Stats[focus].f["Average"] # None
    /\ Laps[1].Stats[focus].f["Average"] = None
    /\ Laps[1].Stats[focus].f["Max"] # None
    /\ Laps[1].Stats[focus].f["Gain"] # None

----------------------------------------------------------------------------
(* ActivityType and PickMostSpecific.  A type is its string; the falsy     *)
(* entry of a list is the empty string.                                    *)

Running == "Running"
Cycling == "Cycling"
MountainBiking == "MtnBiking"
Walking == "Walking"
Hiking == "Hiking"
Swimming == "Swimming"
Gym == "Gym"
Other == "Other"

\* _hierarchy: the right-most element is the most specific
hierarchy == << <<Cycling, MountainBiking>>, <<Running, Walking, Hiking>> >>

Truthy(x) == x # ""

\* [x for x in types if x and x is not ActivityType.Other]
NotOther(x) == Truthy(x) /\ x # Other
FilterTypes(ts) == SelectSeq(ts, NotOther)

\* definition.index(x)
IndexIn(definition, x) ==
    CHOOSE i \in 1..Len(definition) :
        definition[i] = x /\ \A j \in 1..(i - 1) : definition[j] # x

\* len([x for x in types if x in definition]) == len(types)
AllIn(ts, definition) ==
    \A k \in 1..Len(ts) : \E i \in 1..Len(definition) : definition[i] = ts[k]

\* for act_type in types: if index(most_specific) < index(act_type): ...
RECURSIVE PromoteLeast(_, _, _, _)
PromoteLeast(definition, ts, k, most_specific) ==
    IF k > Len(ts) THEN most_specific
    ELSE PromoteLeast(definition, ts, k + 1,
                 IF IndexIn(definition, most_specific) > IndexIn(definition, ts[k])
                 THEN ts[k] ELSE most_specific)

RECURSIVE Promote(_, _, _, _)
Promote(definition, ts, k, most_specific) ==
    IF k > Len(ts) THEN most_specific
    ELSE Promote(definition, ts, k + 1,
                 IF IndexIn(definition, most_specific) < IndexIn(definition, ts[k])
                 THEN ts[k] ELSE most_specific)

\* for definition in ActivityType._hierarchy
RECURSIVE PickLoop(_, _, _)
PickLoop(ts, h, most_specific) ==
    IF h > Len(hierarchy) THEN most_specific
    ELSE PickLoop(ts, h + 1,
                  IF AllIn(ts, hierarchy[h])
                  THEN Promote(hierarchy[h], ts, 1, most_specific)
                  ELSE most_specific)

PickFiltered(ts) == IF Len(ts) = 0 THEN Other ELSE PickLoop(ts, 1, ts[1])

PickMostSpecific(ts) == PickFiltered(FilterTypes(ts))

CallPickMostSpecific ==
    /\ picked = None
    /\ picked' = <<PickMostSpecific(types)>>
    /\ UNCHANGED <<types, convVars, edgeOrder, statVars, actVars, timeVars, tzVars, moreVars>>

----------------------------------------------------------------------------
(* SpecPick: PickMostSpecific on every list of up to MaxTypes entries.     *)

MaxTypes == 3

TypeInputs ==
    {"", Other, Cycling, MountainBiking, Running, Walking, Hiking, Swimming, Gym}

InitPick ==
    /\ ConvIdle
    /\ edgeOrder = SourceOrder
    /\ objs = <<>>
    /\ stores = <<>>
    /\ StatIdle
    /\ Stats = ActivityStatistics
    /\ Laps = <<>>
    /\ focus = "none"
    /\ summed = {}
    /\ call = NoActivityCall
    /\ pre = NoSnapshot
    /\ StartTime = None /\ EndTime = None /\ Stationary = None
    /\ TZ = None /\ FallbackTZ = None /\ tz_cache = <<>>
    /\ \E n \in 0..MaxTypes : types \in [1..n -> TypeInputs]
    /\ picked = None
    /\ MoreIdle

NextPick == CallPickMostSpecific

SpecPick == InitPick /\ [][NextPick]_vars

Families == { {Cycling, MountainBiking}, {Running, Walking, Hiking} }

Rank(t) ==
    CASE t \in {Cycling, Running} -> 1
      [] t \in {MountainBiking, Walking} -> 2
      [] t = Hiking -> 3

Kept == SelectSeq(types, LAMBDA x : x # "" /\ x # "Other")
KeptSet == {Kept[k] : k \in 1..Len(Kept)}

(* C8: PickMostSpecific drops falsy and Other entries; nothing left gives
   Other; entries all of one family give the highest-ranked member present,
   whatever the order and the duplicates; otherwise the first kept entry.
   [Cycling] -> Cycling, [Cycling, MtnBiking] -> MtnBiking,
   [Cycling, Running] -> Cycling. *)
C8_PickMostSpecific ==
    picked # None =>
        /\ IF Kept = <<>> THEN picked[1] = "Other"
           ELSE IF \E F \in Families : KeptSet \subseteq F
           THEN /\ picked[1] \in KeptSet
                /\ \A t \in KeptSet : Rank(t) <= Rank(picked[1])
           ELSE picked[1] = Kept[1]
        /\ types = <<"Cycling">> => picked[1] = "Cycling"
        /\ types = <<"Cycling", "MtnBiking">> => picked[1] = "MtnBiking"
        /\ types = <<"Cycling", "Running">> => picked[1] = "Cycling"

C8_Witness ==
    /\ types = <<"Hiking", "Other", "Running">>
    /\ picked = <<"Hiking">>

C8_WitnessMixed ==
    /\ types = <<"", "Walking", "MtnBiking">>
    /\ picked = <<"Walking">>

C8_WitnessPromoted ==
    /\ types = <<"Running", "Walking", "Running">>
    /\ picked = <<"Walking">>

----------------------------------------------------------------------------
(* Locations, waypoints and timezones.  An optional value is None or the   *)
(* one-element tuple of the value.                                         *)

\* WaypointType
Regular == 1
Pause == 11

\* Location(lat, lon, alt)
Location(lat, lon, alt) == <<[Latitude |-> lat, Longitude |-> lon, Altitude |-> alt]>>

\* Waypoint(ptType=..., location=...)
Waypoint(ptType, location) == [Timestamp |-> None, Type |-> ptType, Location |-> location]

\* Lap(startTime, endTime, stats=..., waypointList=...)
LapOf(startTime, endTime, stats, waypointList) ==
    [StartTime |-> startTime, EndTime |-> endTime, Stats |-> stats, Waypoints |-> waypointList]

\* pytz.timezone(name) and pytz.FixedOffset(minutes)
timezone(name) == <<[kind |-> "named", name |-> name, minutes |-> 0]>>
FixedOffset(minutes) == <<[kind |-> "fixed", name |-> "", minutes |-> minutes]>>

\* what TZLookup returns and the cache stores: a str or a number
TZName(name) == [type |-> "str", name |-> name, number |-> 0]
TZNumber(n) == [type |-> "int", name |-> "", number |-> n]

\* TZLookup(lat, lon), the external resolver: a zone name east of Greenwich,
\* a number of hours west of it
TZLookup(lat, lon) ==
    IF lon[1] >= 0 THEN TZName(IF lon[1] < 15 THEN "Europe/Ljubljana" ELSE "Europe/Vienna")
    ELSE TZNumber(-5)

\* wp.Location is not None and ...Latitude is not None and ...Longitude is not None
HasLocation(wp) ==
    /\ wp.Location # None
    /\ wp.Location[1].Latitude # None
    /\ wp.Location[1].Longitude # None

\* for wp in lap.Waypoints: if ...: loc_wp = wp.Location; break
RECURSIVE ScanWaypoints(_, _, _)
ScanWaypoints(wps, j, loc_wp) ==
    IF j > Len(wps) THEN loc_wp
    ELSE IF HasLocation(wps[j]) THEN wps[j].Location
    ELSE ScanWaypoints(wps, j + 1, loc_wp)

\* for lap in self.Laps: the break leaves only the inner loop
RECURSIVE ScanLaps(_, _, _)
ScanLaps(laps, i, loc_wp) ==
    IF i > Len(laps) THEN loc_wp
    ELSE ScanLaps(laps, i + 1, ScanWaypoints(laps[i].Waypoints, 1, loc_wp))

GetFirstWaypointWithLocation(laps) == ScanLaps(laps, 1, None)

\* cachedb.tz_cache.find_one({"Latitude": lat, "Longitude": lon})
find_one(cache, lat, lon) ==
    IF \E i \in 1..Len(cache) : cache[i].Latitude = lat /\ cache[i].Longitude = lon
    THEN << cache[CHOOSE i \in 1..Len(cache) :
                    /\ cache[i].Latitude = lat /\ cache[i].Longitude = lon
                    /\ \A j \in 1..(i - 1) :
                          ~(cache[j].Latitude = lat /\ cache[j].Longitude = lon)] >>
    ELSE None

\* lines 144-148
TZOf(cachedTzData) ==
    IF cachedTzData.TZ.type # "str"
    THEN FixedOffset(cachedTzData.TZ.number * 60)
    ELSE timezone(cachedTzData.TZ.name)

TZResult(end, tz, cache, used, msg) ==
    [end |-> end, TZ |-> tz, tz_cache |-> cache, used |-> used, msg |-> msg]

\* lines 138-142
LookedUp(cache, loc, cachedTzData) ==
    IF cachedTzData = None
    THEN TZResult("ok",
                  TZOf([TZ |-> TZLookup(loc[1].Latitude, loc[1].Longitude)]),
                  Append(cache, [TZ |-> TZLookup(loc[1].Latitude, loc[1].Longitude),
                                 Latitude |-> loc[1].Latitude,
                                 Longitude |-> loc[1].Longitude]),
                  loc, "lookup")
    ELSE TZResult("ok", TZOf(cachedTzData[1]), cache, loc, "cache")

\* lines 129-148, loc being the argument or the waypoint's location
Resolved(tz, fallback, cache, loc) ==
    IF loc = None
    THEN IF fallback = None
         THEN TZResult("Exception", tz, cache, None, "none")
         ELSE TZResult("ok", fallback, cache, None, "fallback")
    ELSE LookedUp(cache, loc, find_one(cache, loc[1].Latitude, loc[1].Longitude))

CalculateTZ(tz, fallback, laps, cache, loc, recalculate) ==
    IF tz # None /\ ~recalculate
    THEN TZResult("ok", tz, cache, None, "memo")
    ELSE Resolved(tz, fallback, cache,
                  IF loc = None THEN GetFirstWaypointWithLocation(laps) ELSE loc)

Calculated(loc, recalculate, r) ==
    /\ TZ' = r.TZ
    /\ tz_cache' = r.tz_cache
    /\ call' = [ActivityCall("CalculateTZ", 0, r.end) EXCEPT
                   !.loc = loc, !.recalculate = recalculate,
                   !.used = r.used, !.msg = r.msg]
    /\ pre' = Snapshot
    /\ UNCHANGED <<Stats, Laps, focus, summed, FallbackTZ, timeVars, pickVars, moreVars,
                   convVars, edgeOrder, statVars>>

\* self.CalculateTZ(loc, recalculate)
CallCalculateTZ(loc, recalculate) ==
    Calculated(loc, recalculate,
               CalculateTZ(TZ, FallbackTZ, Laps, tz_cache, loc, recalculate))

----------------------------------------------------------------------------
(* SpecTZ: activities of up to MaxTZLaps laps of waypoints with and        *)
(* without a location, and CalculateTZ called on them again and again.     *)

MaxTZLaps == 2

LocA == Location(<<46>>, <<14>>, <<300>>)
LocB == Location(<<40>>, <<-74>>, None)
LocC == Location(<<48>>, <<16>>, None)
LocPartial == Location(None, <<14>>, None)

WaypointLists ==
    LET N == Waypoint(Regular, None)
        P == Waypoint(Regular, LocPartial)
        A == Waypoint(Regular, LocA)
        B == Waypoint(Regular, LocB)
    IN  { <<>>, <<N>>, <<P>>, <<A>>, <<B>>, <<N, A>>, <<P, B>>, <<A, B>> }

InitTZ ==
    /\ ConvIdle
    /\ edgeOrder = SourceOrder
    /\ objs = <<>>
    /\ stores = <<>>
    /\ StatIdle
    /\ Stats = ActivityStatistics
    /\ \E n \in 0..MaxTZLaps :
          Laps \in [1..n -> {LapOf(None, None, ActivityStatistics, w) : w \in WaypointLists}]
    /\ focus = "none"
    /\ summed = {}
    /\ call = NoActivityCall
    /\ pre = NoSnapshot
    /\ StartTime = None /\ EndTime = None /\ Stationary = None
    /\ TZ \in {None, timezone("America/New_York")}
    /\ FallbackTZ \in {None, timezone("UTC")}
    /\ tz_cache = <<>>
    /\ types = <<>>
    /\ picked = None
    /\ MoreIdle

TZCalculate ==
    /\ focus = "none"
    /\ \E recalculate \in BOOLEAN : CallCalculateTZ(None, recalculate)

TZCalculateAt ==
    /\ focus = "none"
    /\ \E loc \in {LocA, LocC} : \E recalculate \in BOOLEAN : CallCalculateTZ(loc, recalculate)

NextTZ ==
    \/ TZCalculate
    \/ TZCalculateAt

SpecTZ == InitTZ /\ [][NextTZ]_vars

\* the waypoints of all laps, in order
RECURSIVE FlatWaypoints(_, _)
FlatWaypoints(laps, i) ==
    IF i > Len(laps) THEN <<>> ELSE laps[i].Waypoints \o FlatWaypoints(laps, i + 1)

Located(wps) ==
    {k \in 1..Len(wps) :
        /\ wps[k].Location # None
        /\ wps[k].Location[1].Latitude # None
        /\ wps[k].Location[1].Longitude # None}

FirstLocated(wps) == wps[CHOOSE k \in Located(wps) : \A m \in Located(wps) : k <= m]

\* CalculateTZ ran without loc and without a memoized timezone applying
ResolvedFromWaypoints ==
    /\ call.op = "CalculateTZ"
    /\ call.loc = None
    /\ (pre.TZ = None \/ call.recalculate)

(* C1: CalculateTZ without loc, no memoized timezone applying, resolves from
   the location of the first waypoint, in lap order and waypoint order, that
   has both latitude and longitude, for any number of laps; only when there
   is no such waypoint is the fallback timezone used. *)
C1_FirstLocatedWaypoint ==
    ResolvedFromWaypoints =>
        IF Located(FlatWaypoints(Laps, 1)) # {}
        THEN /\ call.end = "ok"
             /\ call.used = FirstLocated(FlatWaypoints(Laps, 1)).Location
             /\ call.msg \in {"lookup", "cache"}
        ELSE /\ call.used = None
             /\ IF FallbackTZ = None THEN call.end = "Exception"
                ELSE call.end = "ok" /\ call.msg = "fallback" /\ TZ = FallbackTZ

\* the laps that hold a located waypoint
LocatedLaps == {i \in 1..Len(Laps) : Located(Laps[i].Waypoints) # {}}

\* What the code does: the location is the first located waypoint of the
\* last lap that has one.
C1_LastLocatedLap ==
    ResolvedFromWaypoints =>
        IF LocatedLaps # {}
        THEN /\ call.end = "ok"
             /\ call.used =
                  FirstLocated(Laps[CHOOSE i \in LocatedLaps :
                                       \A m \in LocatedLaps : m <= i].Waypoints).Location
        ELSE /\ call.used = None
             /\ IF FallbackTZ = None THEN call.end = "Exception"
                ELSE call.end = "ok" /\ call.msg = "fallback" /\ TZ = FallbackTZ

\* two laps, each with a located waypoint: resolved from the second lap's
C1_Diverges ==
    /\ ResolvedFromWaypoints
    /\ Len(Laps) = 2
    /\ Laps[1].Waypoints = <<Waypoint(Regular, LocA)>>
    /\ Laps[2].Waypoints = <<Waypoint(Regular, LocB)>>
    /\ call.used = LocB
    /\ TZ = FixedOffset(-300)

----------------------------------------------------------------------------
(* CheckSanity.  A datetime is [wall, off]: wall is its wall-clock reading *)
(* in seconds since 1995-01-01 00:00:00, off its UTC offset in seconds, or *)
(* None for a naive datetime.                                              *)

\* datetime(1995, 1, 1)
Year1995 == 0

\* us is the datetime's microsecond
DateTimeAt(wall, us, off) == <<[wall |-> wall, us |-> us, off |-> off]>>
DateTime(wall, off) == DateTimeAt(wall, 0, off)

\* dt.replace(tzinfo=None), as seconds since 1995-01-01
Naive(dt) == dt[1].wall

\* the instant an aware datetime stands for
Instant(dt) == IF dt[1].off = None THEN dt[1].wall ELSE dt[1].wall - dt[1].off[1]

\* (a - b) is a TypeError for one naive and one aware datetime
Subtractable(a, b) == (a[1].off = None) = (b[1].off = None)

\* (a - b).total_seconds()
total_seconds(a, b) == Instant(a) - Instant(b)

Raise(msg) == [end |-> "ValueError", msg |-> msg]
Passed == [end |-> "ok", msg |-> ""]

\* sum([len(x.Waypoints) for x in self.Laps])
RECURSIVE CountWaypoints(_, _)
CountWaypoints(laps, i) ==
    IF i > Len(laps) THEN 0 ELSE Len(laps[i].Waypoints) + CountWaypoints(laps, i + 1)

\* ActivityStatistic.__eq__ and ActivityStatistics.__eq__
StatisticEq(a, b) == a.Units = b.Units /\ a.f = b.f
StatisticsEq(a, b) == \A i \in 1..Len(statKeyList) : StatisticEq(a[statKeyList[i]], b[statKeyList[i]])

\* lines 220-225
PostScan(acc) ==
    IF acc.end # "ok" THEN [end |-> acc.end, msg |-> acc.msg]
    ELSE IF acc.unpausedPoints = 1 THEN Raise("0 < n <= 1 unpaused points in activity")
    ELSE IF acc.pointsWithLocation = 1 THEN Raise("0 < n <= 1 geographic points in activity")
    ELSE IF acc.altLow # None /\ acc.altLow = acc.altHigh /\ acc.altLow[1] = 0
    THEN Raise("Invalid altitudes / no change")
    ELSE Passed

OutOfRangeLatLng(loc) ==
    \/ loc.Latitude # None /\ (loc.Latitude[1] > 90 \/ loc.Latitude[1] < -90)
    \/ loc.Longitude # None /\ (loc.Longitude[1] > 180 \/ loc.Longitude[1] < -180)

\* lines 214-217
TrackAltitude(acc, alt) ==
    IF alt = None THEN acc
    ELSE [acc EXCEPT
            !.altLow = IF @ = None \/ alt[1] < @[1] THEN alt ELSE @,
            !.altHigh = IF @ = None \/ alt[1] > @[1] THEN alt ELSE @]

CountLocated(acc, wp) ==
    IF HasLocation(wp) THEN [acc EXCEPT !.pointsWithLocation = @ + 1] ELSE acc

\* lines 209-219 without the test for latitude 0, longitude 0
LocationStepNoOrigin(acc, wp) ==
    IF wp.Location = None THEN acc
    ELSE IF OutOfRangeLatLng(wp.Location[1])
    THEN [acc EXCEPT !.end = "ValueError", !.msg = "Out of range lat/lng"]
    ELSE CountLocated(TrackAltitude(acc, wp.Location[1].Altitude), wp)

\* lines 209-219
LocationStep(acc, wp) ==
    IF wp.Location = None THEN acc
    ELSE IF wp.Location[1].Latitude = <<0>> /\ wp.Location[1].Longitude = <<0>>
    THEN [acc EXCEPT !.end = "ValueError", !.msg = "Invalid lat/lng"]
    ELSE IF OutOfRangeLatLng(wp.Location[1])
    THEN [acc EXCEPT !.end = "ValueError", !.msg = "Out of range lat/lng"]
    ELSE CountLocated(TrackAltitude(acc, wp.Location[1].Altitude), wp)

\* lines 207-208
CountUnpaused(acc, wp) ==
    IF wp.Type # Pause THEN [acc EXCEPT !.unpausedPoints = @ + 1] ELSE acc

\* for wp in lap.Waypoints
RECURSIVE SanityWaypoints(_, _, _)
SanityWaypoints(acc, wps, k) ==
    IF k > Len(wps) \/ acc.end # "ok" THEN acc
    ELSE SanityWaypoints(LocationStep(CountUnpaused(acc, wps[k]), wps[k]), wps, k + 1)

\* lines 202-206
SanityLap(acc, lap) ==
    IF lap.StartTime = None
    THEN [acc EXCEPT !.end = "ValueError", !.msg = "Lap has no start time"]
    ELSE IF lap.EndTime = None
    THEN [acc EXCEPT !.end = "ValueError", !.msg = "Lap has no end time"]
    ELSE SanityWaypoints(acc, lap.Waypoints, 1)

\* for lap in self.Laps
RECURSIVE SanityLaps(_, _, _)
SanityLaps(acc, laps, i) ==
    IF i > Len(laps) \/ acc.end # "ok" THEN acc
    ELSE SanityLaps(SanityLap(acc, laps[i]), laps, i + 1)

ScanStart ==
    [end |-> "ok", msg |-> "", altLow |-> None, altHigh |-> None,
     pointsWithLocation |-> 0, unpausedPoints |-> 0]

\* lines 194-225
CheckLaps(stats, laps) ==
    IF Len(laps) = 1 /\ ~StatisticsEq(laps[1].Stats, stats)
    THEN Raise("Activity with 1 lap has mismatching statistics between activity and lap")
    ELSE PostScan(SanityLaps(ScanStart, laps, 1))

\* lines 185-192 without the test for a duration of 0
CheckDurationNoZero(startTime, endTime, stats, laps) ==
    IF startTime = None \/ endTime = None THEN CheckLaps(stats, laps)
    ELSE IF ~Subtractable(endTime, startTime) THEN [end |-> "TypeError", msg |-> ""]
    ELSE IF total_seconds(endTime, startTime) < 0 THEN Raise("Event finishes before it starts")
    ELSE IF total_seconds(endTime, startTime) > 60 * 60 * 24 * 5
    THEN Raise("Exceedingly long activity (time)")
    ELSE CheckLaps(stats, laps)

\* lines 185-192
CheckDuration(startTime, endTime, stats, laps) ==
    IF startTime = None \/ endTime = None THEN CheckLaps(stats, laps)
    ELSE IF ~Subtractable(endTime, startTime) THEN [end |-> "TypeError", msg |-> ""]
    ELSE IF total_seconds(endTime, startTime) < 0 THEN Raise("Event finishes before it starts")
    ELSE IF total_seconds(endTime, startTime) = 0 THEN Raise("0-duration activity")
    ELSE IF total_seconds(endTime, startTime) > 60 * 60 * 24 * 5
    THEN Raise("Exceedingly long activity (time)")
    ELSE CheckLaps(stats, laps)

\* lines 178-183; timedelta(days=n) is n * 24 * 60 * 60 seconds
CheckTimes(startTime, endTime, stats, laps, now) ==
    IF startTime = None THEN [end |-> "AttributeError", msg |-> ""]
    ELSE IF Naive(startTime) > now + 5 * 24 * 60 * 60 THEN Raise("Activity is from the future")
    ELSE IF Naive(startTime) < Year1995 THEN Raise("Activity falls implausibly far in the past")
    ELSE IF endTime # None /\ Naive(endTime) > now + (5 + 5) * 24 * 60 * 60
    THEN Raise("Activity ends in the future")
    ELSE CheckDuration(startTime, endTime, stats, laps)

\* line 176, meters being self.Stats.Distance.asUnits(Meters)
CheckDistance(meters, startTime, endTime, stats, laps, now) ==
    IF meters.end # "ok" THEN [end |-> meters.end, msg |-> "Unable to find conversion"]
    ELSE IF RLess(RInt(1000 * 1000), meters.f["Value"])
    THEN Raise("Exceedingly long activity (distance)")
    ELSE CheckTimes(startTime, endTime, stats, laps, now)

\* lines 176-225
CheckStats(startTime, endTime, stats, laps, now, order) ==
    IF stats["Distance"].f["Value"] # None
    THEN CheckDistance(asUnits(<<AsObject(stats["Distance"], 1)>>,
                               <<stats["Distance"].samples>>, 1, Meters, order),
                       startTime, endTime, stats, laps, now)
    ELSE CheckTimes(startTime, endTime, stats, laps, now)

\* lines 171-175
CheckWaypointCount(wptCt, startTime, endTime, stationary, stats, laps, now, order) ==
    IF ~stationary[1] /\ wptCt = 0 THEN Raise("Exactly 0 waypoints")
    ELSE IF ~stationary[1] /\ wptCt = 1 THEN Raise("Only 1 waypoint")
    ELSE CheckStats(startTime, endTime, stats, laps, now, order)

CheckSanity(startTime, endTime, stationary, stats, laps, now, order) ==
    IF Len(laps) = 0 THEN Raise("No laps")
    ELSE IF stationary = None THEN Raise("Activity is undecidedly stationary")
    ELSE CheckWaypointCount(CountWaypoints(laps, 1),
                            startTime, endTime, stationary, stats, laps, now, order)

Checked(now, r) ==
    /\ call' = [ActivityCall("CheckSanity", 0, r.end) EXCEPT !.msg = r.msg, !.now = now]
    /\ pre' = Snapshot
    /\ UNCHANGED <<Stats, Laps, focus, summed, restVars, convVars, edgeOrder, statVars>>

\* self.CheckSanity(), datetime.now() being now
CallCheckSanity(now) ==
    Checked(now, CheckSanity(StartTime, EndTime, Stationary, Stats, Laps, now, edgeOrder))

----------------------------------------------------------------------------
(* SpecSanity: CheckSanity on activities that pass every rule and on       *)
(* activities that break one or several of them.                           *)

\* datetime.now(): a day in 2026, and six days later
NowValues == {1000000000, 1000518400}
Today == CHOOSE n \in NowValues : \A m \in NowValues : n <= m

Day == 24 * 60 * 60

StartWalls == {0 - 1, 0, Today - 3600, Today + 5 * Day, Today + 5 * Day + 1}

\* the end time: none, or this many seconds after the start
Durations == {<<>>, <<0 - 1>>, <<0>>, <<3600>>, <<5 * Day>>, <<5 * Day + 1>>, <<6 * Day>>}

\* UTC offsets of the start and of the end time: both naive, or both aware
Offsets == { <<None, None>>, <<<<0>>, <<0>>>>, <<<<3600>>, <<0 - 18000>>>> }

EndAfter(startTime, d, off) ==
    IF d = None THEN None
    ELSE DateTime(Instant(startTime) + d[1] + (IF off = None THEN 0 ELSE off[1]), off)

Distances ==
    { Statistic(Meters, NoFields),
      Statistic(Meters, [NoFields EXCEPT !["Value"] = Rat(1000, 1)]),
      Statistic(Meters, [NoFields EXCEPT !["Value"] = Rat(1000001, 1)]),
      Statistic(Kilometers, [NoFields EXCEPT !["Value"] = Rat(1001, 1)]) }

\* the laps of an activity that starts at t and has statistics st
LapLists(t, st) ==
    LET W1 == Waypoint(Regular, LocA)
        W2 == Waypoint(Regular, Location(<<46>>, <<15>>, <<310>>))
        Z == Waypoint(Regular, Location(<<0>>, <<0>>, None))
        E == Waypoint(Regular, Location(<<0>>, <<14>>, None))
        X == Waypoint(Regular, Location(<<91>>, <<14>>, None))
        F == Waypoint(Regular, Location(<<46>>, <<14>>, <<0>>))
        H == Waypoint(Regular, LocPartial)
        N == Waypoint(Regular, None)
        P == Waypoint(Pause, None)
        L(w) == LapOf(t, t, st, w)
    IN  { <<>>,
          <<L(<<>>)>>,
          <<L(<<W1>>)>>,
          <<L(<<Z>>)>>,
          <<L(<<W1, W2>>)>>,
          <<L(<<W1, W2, Z>>)>>,
          <<L(<<W1, W2, E>>)>>,
          <<L(<<W1, W2, X>>)>>,
          <<L(<<W1, P>>)>>,
          <<L(<<N, N, W1>>)>>,
          <<L(<<N, N>>)>>,
          <<L(<<H, W1, W2>>)>>,
          <<L(<<F, F>>)>>,
          <<L(<<W1>>), L(<<W2>>)>>,
          <<L(<<W1, W2>>), L(<<Z, W1>>)>>,
          <<LapOf(None, t, st, <<W1>>), L(<<Z, W1>>)>>,
          <<LapOf(t, None, st, <<W1, W2>>)>>,
          <<LapOf(t, t, ActivityStatistics, <<W1, W2>>)>> }

InitSanity ==
    /\ ConvIdle
    /\ edgeOrder = SourceOrder
    /\ objs = <<>>
    /\ stores = <<>>
    /\ StatIdle
    /\ \E d \in Distances : Stats = [ActivityStatistics EXCEPT !["Distance"] = d]
    /\ \E w \in StartWalls, o \in Offsets, d \in Durations :
          /\ StartTime = DateTime(w, o[1])
          /\ EndTime = EndAfter(DateTime(w, o[1]), d, o[2])
    /\ Laps \in LapLists(StartTime, Stats)
    /\ Stationary \in {None, <<TRUE>>, <<FALSE>>}
    /\ focus = "none"
    /\ summed = {}
    /\ call = NoActivityCall
    /\ pre = NoSnapshot
    /\ TZ = None /\ FallbackTZ = None /\ tz_cache = <<>>
    /\ types = <<>>
    /\ picked = None
    /\ MoreIdle

SanityCheck ==
    /\ StartTime # None
    /\ \E now \in NowValues : CallCheckSanity(now)

NextSanity == SanityCheck

SpecSanity == InitSanity /\ [][NextSanity]_vars

ZeroDuration ==
    /\ StartTime # None /\ EndTime # None
    /\ StartTime[1].wall - (IF StartTime[1].off = None THEN 0 ELSE StartTime[1].off[1])
         = EndTime[1].wall - (IF EndTime[1].off = None THEN 0 ELSE EndTime[1].off[1])

SecondsLong ==
    (EndTime[1].wall - (IF EndTime[1].off = None THEN 0 ELSE EndTime[1].off[1]))
      - (StartTime[1].wall - (IF StartTime[1].off = None THEN 0 ELSE StartTime[1].off[1]))

OverFiveDays == StartTime # None /\ EndTime # None /\ SecondsLong > 5 * 86400

AtOrigin ==
    \E i \in 1..Len(Laps) : \E k \in 1..Len(Laps[i].Waypoints) :
        /\ Laps[i].Waypoints[k].Location # None
        /\ Laps[i].Waypoints[k].Location[1].Latitude = <<0>>
        /\ Laps[i].Waypoints[k].Location[1].Longitude = <<0>>

TotalWaypoints == Len(FlatWaypoints(Laps, 1))

TooFewWaypoints == Stationary = <<FALSE>> /\ TotalWaypoints \in {0, 1}

(* C9: CheckSanity raises a validation error for every activity whose start
   time equals its end time, or that has a waypoint at latitude 0 and
   longitude 0, or that lasts more than 5 days, or that is not stationary
   and has exactly one, or exactly zero, waypoints over all its laps. *)
C9_Rejects ==
    (call.op = "CheckSanity" /\ (ZeroDuration \/ AtOrigin \/ OverFiveDays \/ TooFewWaypoints))
        => call.end = "ValueError"

C9_Witness ==
    /\ call.op = "CheckSanity"
    /\ ZeroDuration
    /\ call.end = "ValueError"
    /\ call.msg = "0-duration activity"

C9_WitnessOrigin ==
    /\ call.op = "CheckSanity"
    /\ AtOrigin
    /\ call.end = "ValueError"
    /\ call.msg = "Invalid lat/lng"

C9_WitnessSixDays ==
    /\ call.op = "CheckSanity"
    /\ StartTime # None /\ EndTime # None /\ SecondsLong = 6 * 86400
    /\ call.end = "ValueError"
    /\ call.msg = "Exceedingly long activity (time)"

C9_WitnessOneWaypoint ==
    /\ call.op = "CheckSanity"
    /\ Stationary = <<FALSE>> /\ TotalWaypoints = 1
    /\ call.end = "ValueError"
    /\ call.msg = "Only 1 waypoint"

C9_WitnessNoWaypoint ==
    /\ call.op = "CheckSanity"
    /\ Stationary = <<FALSE>> /\ TotalWaypoints = 0 /\ Len(Laps) = 1
    /\ call.end = "ValueError"
    /\ call.msg = "Exactly 0 waypoints"

\* an activity that passes every rule
C9_WitnessPassed ==
    /\ call.op = "CheckSanity"
    /\ call.end = "ok"

----------------------------------------------------------------------------
(* CalculateUID.  The digest of a string is modelled as the string itself  *)
(* under md5: two digests are equal iff the strings are.                   *)

\* tz.utcoffset(dt) in seconds, daylight saving left aside
UTCOffset(tz) ==
    IF tz[1].kind = "fixed" THEN tz[1].minutes * 60
    ELSE CASE tz[1].name = "UTC" -> 0
           [] tz[1].name = "Europe/Ljubljana" -> 3600
           [] tz[1].name = "Europe/Vienna" -> 3600
           [] tz[1].name = "America/New_York" -> 0 - 18000

\* dt.astimezone(tz); a naive dt is taken to be in the system's zone, whose
\* offset is local
astimezone(dt, tz, local) ==
    DateTimeAt(dt[1].wall - (IF dt[1].off = None THEN local ELSE dt[1].off[1]) + UTCOffset(tz),
               dt[1].us, <<UTCOffset(tz)>>)

\* dt - timedelta(microseconds=dt.microsecond)
WithoutMicroseconds(dt) == DateTimeAt(dt[1].wall, 0, dt[1].off)

\* dt.strftime("%Y-%m-%d %H:%M:%S"): the day, the hour, the minute, the second
strftime(dt) ==
    << dt[1].wall \div 86400,
       (dt[1].wall % 86400) \div 3600,
       (dt[1].wall % 3600) \div 60,
       dt[1].wall % 60 >>

\* hashlib md5 hexdigest
md5(text) == <<[md5 |-> text]>>

\* lines 72-77 without "if self.TZ: ... astimezone(self.TZ)"
HashedStartNoTZ(startTime, tz, local) == md5(strftime(WithoutMicroseconds(startTime)))

\* lines 72-77
HashedStart(startTime, tz, local) ==
    md5(strftime(IF tz # None
                 THEN astimezone(WithoutMicroseconds(startTime), tz, local)
                 ELSE WithoutMicroseconds(startTime)))

\* the value of self.UID after CalculateUID()
CalculateUID(startTime, tz, uid, local) ==
    IF startTime = None THEN uid ELSE HashedStart(startTime, tz, local)

\* self.CalculateUID()
CallCalculateUID(local) ==
    /\ UID' = CalculateUID(StartTime, TZ, UID, local)
    /\ call' = ActivityCall("CalculateUID", 0, "ok")
    /\ pre' = Snapshot
    /\ UNCHANGED <<Stats, Laps, focus, summed, StartTime, EndTime, Stationary, tzVars,
                   pickVars, peer, callers, events, convVars, edgeOrder, statVars>>

\* peer.CalculateUID()
CallPeerCalculateUID(local) ==
    /\ peer' = [peer EXCEPT !.UID = CalculateUID(peer.StartTime, peer.TZ, peer.UID, local),
                            !.called = TRUE]
    /\ call' = ActivityCall("CalculateUID", 1, "ok")
    /\ pre' = Snapshot
    /\ UNCHANGED <<Stats, Laps, focus, summed, timeVars, tzVars, pickVars, UID, callers,
                   events, convVars, edgeOrder, statVars>>

----------------------------------------------------------------------------
(* SpecUID: two activities whose start times and timezones are drawn       *)
(* independently, each computing its UID.                                  *)

\* the system's UTC offset
LocalOffsets == {0, 3600}

UIDStartTimes ==
    {None} \cup
    { DateTimeAt(w, u, o) :
        w \in {1000000000, 1000003600, 999982000},
        u \in {0, 500000},
        o \in {None, <<0>>, <<3600>>} }

UIDZones == {None, timezone("UTC"), timezone("Europe/Ljubljana"), FixedOffset(0 - 300)}

\* a UID left by an earlier CalculateUID
StaleUID == md5(<<0, 0, 0, 0>>)

InitUID ==
    /\ ConvIdle
    /\ edgeOrder = SourceOrder
    /\ objs = <<>>
    /\ stores = <<>>
    /\ StatIdle
    /\ Stats = ActivityStatistics
    /\ Laps = <<>>
    /\ focus = "none"
    /\ summed = {}
    /\ call = NoActivityCall
    /\ pre = NoSnapshot
    /\ StartTime \in UIDStartTimes
    /\ EndTime = None
    /\ Stationary = None
    /\ TZ \in UIDZones
    /\ FallbackTZ = None
    /\ tz_cache = <<>>
    /\ types = <<>>
    /\ picked = None
    /\ UID \in {None, StaleUID}
    /\ \E st \in UIDStartTimes, z \in UIDZones :
          peer = [StartTime |-> st, TZ |-> z, UID |-> None, called |-> FALSE]
    /\ callers = <<>>
    /\ events = <<>>

UIDCalculate ==
    /\ focus = "none"
    /\ \E local \in LocalOffsets : CallCalculateUID(local)

UIDCalculatePeer ==
    /\ ~peer.called
    /\ \E local \in LocalOffsets : CallPeerCalculateUID(local)

NextUID ==
    \/ UIDCalculate
    \/ UIDCalculatePeer

SpecUID == InitUID /\ [][NextUID]_vars

\* the start's wall-clock reading, in seconds, in the activity's timezone
LocalWall(startTime, tz) ==
    IF tz = None THEN startTime[1].wall
    ELSE startTime[1].wall - startTime[1].off[1] + UTCOffset(tz)

\* the start time stands for an instant, or no timezone is to be applied
Qualified(startTime, tz) ==
    startTime # None /\ (tz = None \/ startTime[1].off # None)

BothCalculated == call.op = "CalculateUID" /\ call.arg = 0 /\ peer.called

(* C11: the UID depends only on the start's wall-clock second in the
   activity's timezone: equal local seconds give equal UIDs whatever the
   timezones and the microseconds, different local seconds (so the same
   instant in timezones of different offset) give different UIDs; with no
   start time CalculateUID changes nothing. *)
C11_UID ==
    /\ (BothCalculated /\ Qualified(StartTime, TZ) /\ Qualified(peer.StartTime, peer.TZ)) =>
          ((LocalWall(StartTime, TZ) = LocalWall(peer.StartTime, peer.TZ)) <=> (UID = peer.UID))
    /\ (call.op = "CalculateUID" /\ call.arg = 0 /\ StartTime = None) =>
          /\ UID = pre.UID
          /\ StartTime = pre.StartTime /\ EndTime = pre.EndTime
          /\ TZ = pre.TZ /\ Laps = pre.Laps
    /\ (peer.called /\ peer.StartTime = None) => peer.UID = None

\* same local second, different timezones and microseconds: same UID
C11_Witness ==
    /\ BothCalculated
    /\ Qualified(StartTime, TZ) /\ Qualified(peer.StartTime, peer.TZ)
    /\ TZ # None /\ peer.TZ # None /\ UTCOffset(TZ) # UTCOffset(peer.TZ)
    /\ StartTime[1].us # peer.StartTime[1].us
    /\ LocalWall(StartTime, TZ) = LocalWall(peer.StartTime, peer.TZ)
    /\ UID = peer.UID

\* same instant, timezones of different offset: different UIDs
C11_WitnessInstant ==
    /\ BothCalculated
    /\ StartTime # None /\ peer.StartTime # None
    /\ StartTime[1].off # None /\ peer.StartTime[1].off # None
    /\ StartTime[1].wall - StartTime[1].off[1] = peer.StartTime[1].wall - peer.StartTime[1].off[1]
    /\ TZ # None /\ peer.TZ # None /\ UTCOffset(TZ) # UTCOffset(peer.TZ)
    /\ UID # peer.UID

\* no start time: the UID of an earlier computation stays
C11_WitnessAbsent ==
    /\ call.op = "CalculateUID" /\ call.arg = 0
    /\ StartTime = None
    /\ UID = StaleUID

----------------------------------------------------------------------------
(* DefineTZ and AdjustTZ.  Both walk the activity in the order of the code *)
(* and keep what they wrote before an exception.                           *)

\* Waypoint(timestamp, ptType, location)
WaypointAt(timestamp, ptType, location) ==
    [Timestamp |-> timestamp, Type |-> ptType, Location |-> location]

\* self.TZ.localize(dt): the wall-clock fields stay, the offset is attached
localize(dt, tz) == DateTimeAt(dt[1].wall, dt[1].us, <<UTCOffset(tz)>>)

\* dt.tzinfo is None
IsNaive(dt) == dt[1].off = None

TZOutcome(end, startTime, endTime, laps, uid) ==
    [end |-> end, StartTime |-> startTime, EndTime |-> endTime, Laps |-> laps, UID |-> uid]

\* lines 105-107
RECURSIVE DefineWaypoints(_, _, _)
DefineWaypoints(wps, k, tz) ==
    IF k > Len(wps) THEN [end |-> "ok", wps |-> wps]
    ELSE IF wps[k].Timestamp = None THEN [end |-> "AttributeError", wps |-> wps]
    ELSE DefineWaypoints(
             [wps EXCEPT ![k].Timestamp = IF IsNaive(@) THEN localize(@, tz) ELSE @],
             k + 1, tz)

LapWaypoints(lap, r) == [end |-> r.end, lap |-> [lap EXCEPT !.Waypoints = r.wps]]

\* lines 103-107 for one lap
DefineLap(lap, tz) ==
    IF lap.StartTime = None THEN [end |-> "AttributeError", lap |-> lap]
    ELSE IF lap.EndTime = None
    THEN [end |-> "AttributeError",
          lap |-> [lap EXCEPT !.StartTime = IF IsNaive(@) THEN localize(@, tz) ELSE @]]
    ELSE LapWaypoints(
             [lap EXCEPT !.StartTime = IF IsNaive(@) THEN localize(@, tz) ELSE @,
                         !.EndTime = IF IsNaive(@) THEN localize(@, tz) ELSE @],
             DefineWaypoints(lap.Waypoints, 1, tz))

LapsWith(laps, i, r) == [end |-> r.end, laps |-> [laps EXCEPT ![i] = r.lap]]

\* for lap in self.Laps (DefineTZ)
RECURSIVE DefineLaps(_, _, _)
DefineLaps(st, i, tz) ==
    IF i > Len(st.laps) \/ st.end # "ok" THEN st
    ELSE DefineLaps(LapsWith(st.laps, i, DefineLap(st.laps[i], tz)), i + 1, tz)

\* lines 102-108, the start and end times being localized already
DefineRest(startTime, endTime, r, tz, uid, local) ==
    TZOutcome(r.end, startTime, endTime, r.laps,
              IF r.end = "ok" THEN CalculateUID(startTime, tz, uid, local) ELSE uid)

\* DefineTZ computing the UID before it looks at self.TZ
DefineTZHashesFirst(startTime, endTime, laps, tz, uid, local) ==
    IF tz = None
    THEN TZOutcome("ValueError", startTime, endTime, laps,
                   CalculateUID(startTime, tz, uid, local))
    ELSE DefineRest(IF startTime # None /\ IsNaive(startTime)
                    THEN localize(startTime, tz) ELSE startTime,
                    IF endTime # None /\ IsNaive(endTime)
                    THEN localize(endTime, tz) ELSE endTime,
                    DefineLaps([end |-> "ok", laps |-> laps], 1, tz), tz, uid, local)

DefineTZ(startTime, endTime, laps, tz, uid, local) ==
    IF tz = None THEN TZOutcome("ValueError", startTime, endTime, laps, uid)
    ELSE DefineRest(IF startTime # None /\ IsNaive(startTime)
                    THEN localize(startTime, tz) ELSE startTime,
                    IF endTime # None /\ IsNaive(endTime)
                    THEN localize(endTime, tz) ELSE endTime,
                    DefineLaps([end |-> "ok", laps |-> laps], 1, tz), tz, uid, local)

\* lines 120-121
RECURSIVE AdjustWaypoints(_, _, _, _)
AdjustWaypoints(wps, k, tz, local) ==
    IF k > Len(wps) THEN [end |-> "ok", wps |-> wps]
    ELSE IF wps[k].Timestamp = None THEN [end |-> "AttributeError", wps |-> wps]
    ELSE AdjustWaypoints([wps EXCEPT ![k].Timestamp = astimezone(@, tz, local)],
                         k + 1, tz, local)

\* lines 118-121 for one lap
AdjustLap(lap, tz, local) ==
    IF lap.StartTime = None THEN [end |-> "AttributeError", lap |-> lap]
    ELSE IF lap.EndTime = None
    THEN [end |-> "AttributeError",
          lap |-> [lap EXCEPT !.StartTime = astimezone(@, tz, local)]]
    ELSE LapWaypoints(
             [lap EXCEPT !.StartTime = astimezone(@, tz, local),
                         !.EndTime = astimezone(@, tz, local)],
             AdjustWaypoints(lap.Waypoints, 1, tz, local))

\* for lap in self.Laps (AdjustTZ)
RECURSIVE AdjustLaps(_, _, _, _)
AdjustLaps(st, i, tz, local) ==
    IF i > Len(st.laps) \/ st.end # "ok" THEN st
    ELSE AdjustLaps(LapsWith(st.laps, i, AdjustLap(st.laps[i], tz, local)), i + 1, tz, local)

\* lines 117-122, the start and end times being converted already
AdjustRest(startTime, endTime, r, tz, uid, local) ==
    TZOutcome(r.end, startTime, endTime, r.laps,
              IF r.end = "ok" THEN CalculateUID(startTime, tz, uid, local) ELSE uid)

AdjustTZ(startTime, endTime, laps, tz, uid, local) ==
    IF tz = None THEN TZOutcome("ValueError", startTime, endTime, laps, uid)
    ELSE IF startTime = None THEN TZOutcome("AttributeError", startTime, endTime, laps, uid)
    ELSE IF endTime = None
    THEN TZOutcome("AttributeError", astimezone(startTime, tz, local), endTime, laps, uid)
    ELSE AdjustRest(astimezone(startTime, tz, local), astimezone(endTime, tz, local),
                    AdjustLaps([end |-> "ok", laps |-> laps], 1, tz, local), tz, uid, local)

Normalized(op, arg, r) ==
    /\ StartTime' = r.StartTime
    /\ EndTime' = r.EndTime
    /\ Laps' = r.Laps
    /\ UID' = r.UID
    /\ call' = ActivityCall(op, arg, r.end)
    /\ pre' = Snapshot
    /\ UNCHANGED <<Stats, focus, summed, Stationary, tzVars, pickVars, peer, callers,
                   events, convVars, edgeOrder, statVars>>

\* self.DefineTZ()
CallDefineTZ(local) ==
    Normalized("DefineTZ", 0, DefineTZ(StartTime, EndTime, Laps, TZ, UID, local))

\* self.AdjustTZ()
CallAdjustTZ(local) ==
    Normalized("AdjustTZ", 0, AdjustTZ(StartTime, EndTime, Laps, TZ, UID, local))

\* lines 152-155, r being the outcome of self.CalculateTZ(recalculate=recalculate)
Ensured(r, n) ==
    [end |-> n.end, TZ |-> r.TZ, tz_cache |-> r.tz_cache, StartTime |-> n.StartTime,
     EndTime |-> n.EndTime, Laps |-> n.Laps, UID |-> n.UID]

EnsureAfter(r, startTime, endTime, laps, uid, local) ==
    IF r.end # "ok" THEN Ensured(r, TZOutcome(r.end, startTime, endTime, laps, uid))
    ELSE IF startTime = None
    THEN Ensured(r, TZOutcome("AttributeError", startTime, endTime, laps, uid))
    ELSE IF IsNaive(startTime)
    THEN Ensured(r, DefineTZ(startTime, endTime, laps, r.TZ, uid, local))
    ELSE Ensured(r, AdjustTZ(startTime, endTime, laps, r.TZ, uid, local))

EnsureTZ(startTime, endTime, laps, tz, fallback, cache, uid, recalculate, local) ==
    EnsureAfter(CalculateTZ(tz, fallback, laps, cache, None, recalculate),
                startTime, endTime, laps, uid, local)

\* arg is 1 when the call before this one was an EnsureTZ that completed
EnsuredCall(recalculate, r) ==
    /\ TZ' = r.TZ
    /\ tz_cache' = r.tz_cache
    /\ StartTime' = r.StartTime
    /\ EndTime' = r.EndTime
    /\ Laps' = r.Laps
    /\ UID' = r.UID
    /\ call' = [ActivityCall("EnsureTZ",
                             IF call.op = "EnsureTZ" /\ call.end = "ok" THEN 1 ELSE 0,
                             r.end) EXCEPT !.recalculate = recalculate]
    /\ pre' = Snapshot
    /\ UNCHANGED <<Stats, focus, summed, Stationary, FallbackTZ, pickVars, peer, callers,
                   events, convVars, edgeOrder, statVars>>

\* self.EnsureTZ(recalculate)
CallEnsureTZ(recalculate, local) ==
    EnsuredCall(recalculate,
                EnsureTZ(StartTime, EndTime, Laps, TZ, FallbackTZ, tz_cache, UID,
                         recalculate, local))

----------------------------------------------------------------------------
(* SpecNorm: activities with naive, aware and missing times, with and      *)
(* without a timezone, normalized by DefineTZ, AdjustTZ and EnsureTZ.      *)

NormStart == Today

\* the start time and the UTC offset the activity's other times carry
NormStartTimes ==
    { <<None, None>>,
      <<DateTime(NormStart, None), None>>,
      <<DateTime(NormStart, <<0>>), <<0>>>>,
      <<DateTime(NormStart + 3600, <<3600>>), <<3600>>>> }

\* lap lists of an activity whose times carry the offset o
NormLaps(o) ==
    LET T == DateTime(NormStart + 60, o)
        U == DateTime(NormStart + 120, o)
        V == DateTime(NormStart - 18000 + 90, <<0 - 18000>>)
        L(a, b, w) == LapOf(a, b, ActivityStatistics, w)
    IN  { <<>>,
          <<L(T, U, <<WaypointAt(T, Regular, LocA), WaypointAt(U, Regular, None)>>)>>,
          <<L(T, T, <<WaypointAt(T, Regular, None)>>), L(U, U, <<WaypointAt(U, Regular, LocB)>>)>>,
          <<L(T, U, <<WaypointAt(V, Regular, LocA)>>)>>,
          <<L(T, None, <<>>)>>,
          <<L(T, U, <<Waypoint(Regular, LocA)>>)>> }

InitNorm ==
    /\ ConvIdle
    /\ edgeOrder = SourceOrder
    /\ objs = <<>>
    /\ stores = <<>>
    /\ StatIdle
    /\ Stats = ActivityStatistics
    /\ focus = "none"
    /\ summed = {}
    /\ call = NoActivityCall
    /\ pre = NoSnapshot
    /\ \E st \in NormStartTimes :
          /\ StartTime = st[1]
          /\ EndTime \in {None} \cup (IF st[1] = None THEN {}
                                      ELSE {DateTime(st[1][1].wall + 3600, st[2])})
          /\ Laps \in NormLaps(st[2])
    /\ Stationary = None
    /\ TZ \in {None, timezone("Europe/Ljubljana"), FixedOffset(0 - 300)}
    /\ FallbackTZ \in {None, timezone("UTC")}
    /\ tz_cache = <<>>
    /\ types = <<>>
    /\ picked = None
    /\ UID \in {None, StaleUID}
    /\ peer = NoPeer
    /\ callers = <<>>
    /\ events = <<>>

NormDefineTZ ==
    /\ focus = "none"
    /\ \E local \in LocalOffsets : CallDefineTZ(local)

NormAdjustTZ ==
    /\ focus = "none"
    /\ \E local \in LocalOffsets : CallAdjustTZ(local)

NormEnsureTZ ==
    /\ focus = "none"
    /\ \E recalculate \in BOOLEAN : \E local \in LocalOffsets :
          CallEnsureTZ(recalculate, local)

NextNorm ==
    \/ NormDefineTZ
    \/ NormAdjustTZ
    \/ NormEnsureTZ

SpecNorm == InitNorm /\ [][NextNorm]_vars

(* C12: DefineTZ and AdjustTZ on an activity whose TZ is None fail with an
   error and touch nothing: start and end time, every lap's start and end
   time, every waypoint timestamp and the UID are as they were. *)
C12_UnresolvedTZ ==
    (call.op \in {"DefineTZ", "AdjustTZ"} /\ pre.TZ = None) =>
        /\ call.end = "ValueError"
        /\ TZ = None
        /\ StartTime = pre.StartTime
        /\ EndTime = pre.EndTime
        /\ Laps = pre.Laps
        /\ UID = pre.UID

C12_Witness ==
    /\ call.op = "DefineTZ"
    /\ pre.TZ = None
    /\ call.end = "ValueError"
    /\ StartTime # None /\ IsNaive(StartTime)
    /\ Len(Laps) = 1 /\ Len(Laps[1].Waypoints) = 2
    /\ IsNaive(Laps[1].Waypoints[1].Timestamp)
    /\ UID = StaleUID

C12_WitnessAdjust ==
    /\ call.op = "AdjustTZ"
    /\ pre.TZ = None
    /\ call.end = "ValueError"
    /\ StartTime # None /\ ~IsNaive(StartTime)
    /\ Len(Laps) = 2

\* with a timezone DefineTZ does write
C12_WitnessDefined ==
    /\ call.op = "DefineTZ"
    /\ call.end = "ok"
    /\ pre.StartTime # None /\ IsNaive(pre.StartTime)
    /\ ~IsNaive(StartTime)
    /\ UID # pre.UID

\* EnsureTZ() was called on an activity on which EnsureTZ had just completed
EnsuredAgain == call.op = "EnsureTZ" /\ call.arg = 1 /\ ~call.recalculate

(* C16: EnsureTZ is idempotent: on an activity on which EnsureTZ() completed
   (its end time absent or its start time first unqualified included), a
   further EnsureTZ() completes too and leaves the timezone, every start,
   end, lap and waypoint time and the UID as they were. *)
C16_EnsureIdempotent ==
    EnsuredAgain =>
        /\ call.end = "ok"
        /\ TZ = pre.TZ
        /\ StartTime = pre.StartTime
        /\ EndTime = pre.EndTime
        /\ Laps = pre.Laps
        /\ UID = pre.UID

\* the second EnsureTZ() fails on the absent end time
C16_Diverges ==
    /\ EnsuredAgain
    /\ call.end = "AttributeError"
    /\ EndTime = None
    /\ Laps = <<>>

\* What the code does when the second call completes: nothing changes but
\* the reading of times that DefineTZ had left in another offset.
C16_CompletedAgain ==
    (EnsuredAgain /\ call.end = "ok") =>
        /\ TZ = pre.TZ
        /\ StartTime = pre.StartTime
        /\ EndTime = pre.EndTime
        /\ UID = pre.UID
        /\ Len(Laps) = Len(pre.Laps)
        /\ \A i \in 1..Len(Laps) :
              /\ Laps[i].StartTime = pre.Laps[i].StartTime
              /\ Laps[i].EndTime = pre.Laps[i].EndTime
              /\ \A k \in 1..Len(Laps[i].Waypoints) :
                    Instant(Laps[i].Waypoints[k].Timestamp)
                      = Instant(pre.Laps[i].Waypoints[k].Timestamp)

----------------------------------------------------------------------------
(* CalculateTZ step by step: callers, each on an Activity of its own, share *)
(* cachedb.tz_cache; a caller is interrupted between the cache get, the     *)
(* TZLookup call, the cache insert and the assignment of self.TZ.           *)

Callers == {1, 2}

MaxCalls == 2

LocEast == Location(<<46>>, <<16>>, None)

CacheEntry(res, loc) ==
    [TZ |-> res, Latitude |-> loc[1].Latitude, Longitude |-> loc[1].Longitude]

\* the documents a find_one on {"Latitude", "Longitude"} matches on latitude alone
FoundByLatitude(cache, lat, lon) ==
    IF \E i \in 1..Len(cache) : cache[i].Latitude = lat
    THEN { <<cache[i]>> : i \in {j \in 1..Len(cache) : cache[j].Latitude = lat} }
    ELSE {None}

\* cachedb.tz_cache.find_one({"Latitude": ..., "Longitude": ...}): one of the
\* matching documents (the store does not say which), None without a match
Found(cache, lat, lon) ==
    IF \E i \in 1..Len(cache) : cache[i].Latitude = lat /\ cache[i].Longitude = lon
    THEN { <<cache[i]>> : i \in {j \in 1..Len(cache) :
                                    cache[j].Latitude = lat /\ cache[j].Longitude = lon} }
    ELSE {None}

\* an Activity and the frame of the CalculateTZ call running on it
Caller(laps, tz, fallback) ==
    [pc |-> "idle", calls |-> 0, Laps |-> laps, TZ |-> tz, FallbackTZ |-> fallback,
     loc |-> None, recalculate |-> FALSE, cachedTzData |-> None, res |-> None]

\* what a call did, in order: the calls it made on the cache and on TZLookup
\* and how it ended; wrote tells whether the step changed cachedb.tz_cache
Event(op, loc, value, res, wrote) ==
    [op |-> op, loc |-> loc, value |-> value, res |-> res, wrote |-> wrote]

\* the call returns or raises: the frame is dropped
Left(a) ==
    [a EXCEPT !.pc = "idle", !.calls = @ + 1, !.cachedTzData = None, !.res = None]

Logged(c, op, loc, value, res) ==
    events' = [events EXCEPT ![c] =
                  Append(@, Event(op, loc, value, res, tz_cache' # tz_cache))]

cacheOthers ==
    <<convVars, edgeOrder, statVars, actVars, timeVars, TZ, FallbackTZ, pickVars, UID, peer>>

\* lines 125-137 with loc already resolved: the memoized timezone, the fallback
\* timezone, the exception, or on to the cache
Entered(c, loc, recalculate) ==
    LET a == callers[c]
        first(op, value) ==
            events' = [events EXCEPT ![c] =
                          <<Event(op, loc, value, None, tz_cache' # tz_cache)>>]
    IN  /\ tz_cache' = tz_cache
        /\ IF a.TZ # None /\ ~recalculate
           THEN /\ callers' = [callers EXCEPT ![c] = [Left(a) EXCEPT !.loc = None]]
                /\ first("return", "memo")
           ELSE IF loc = None
           THEN IF a.FallbackTZ = None
                THEN /\ callers' = [callers EXCEPT ![c] = [Left(a) EXCEPT !.loc = None]]
                     /\ first("raise", "none")
                ELSE /\ callers' = [callers EXCEPT ![c] =
                                       [Left(a) EXCEPT !.loc = None, !.TZ = a.FallbackTZ]]
                     /\ first("return", "fallback")
           ELSE /\ callers' = [callers EXCEPT ![c] =
                                  [a EXCEPT !.pc = "find_one", !.loc = loc,
                                            !.recalculate = recalculate]]
                /\ first("call", "none")

\* lines 124-137
Enter(c) ==
    /\ callers[c].pc = "idle"
    /\ callers[c].calls < MaxCalls
    /\ \E loc \in {None, LocA, LocEast} : \E recalculate \in BOOLEAN :
          Entered(c, IF loc = None THEN GetFirstWaypointWithLocation(callers[c].Laps) ELSE loc,
                  recalculate)
    /\ UNCHANGED cacheOthers

\* a lookup whatever the cache returned
AfterFindAlways(cachedTzData) == "TZLookup"

\* line 139: if cachedTzData is None
AfterFind(cachedTzData) ==
    IF cachedTzData = None THEN "TZLookup" ELSE "return"

\* line 138
FindOne(c) ==
    /\ callers[c].pc = "find_one"
    /\ tz_cache' = tz_cache
    /\ \E cachedTzData \in Found(tz_cache, callers[c].loc[1].Latitude,
                                 callers[c].loc[1].Longitude) :
          /\ callers' = [callers EXCEPT ![c] =
                            [@ EXCEPT !.cachedTzData = cachedTzData,
                                      !.pc = AfterFind(cachedTzData)]]
          /\ Logged(c, "find_one", callers[c].loc,
                    IF cachedTzData = None THEN "miss" ELSE "hit", None)
    /\ UNCHANGED cacheOthers

\* line 140
Lookup(c) ==
    /\ callers[c].pc = "TZLookup"
    /\ tz_cache' = tz_cache
    /\ callers' = [callers EXCEPT ![c] =
                      [@ EXCEPT !.res = <<TZLookup(callers[c].loc[1].Latitude,
                                                    callers[c].loc[1].Longitude)>>,
                                !.pc = "insert"]]
    /\ Logged(c, "TZLookup", callers[c].loc, "none", callers'[c].res)
    /\ UNCHANGED cacheOthers

\* lines 141-142
Insert(c) ==
    /\ callers[c].pc = "insert"
    /\ tz_cache' = Append(tz_cache, CacheEntry(callers[c].res[1], callers[c].loc))
    /\ callers' = [callers EXCEPT ![c] =
                      [@ EXCEPT !.cachedTzData = <<CacheEntry(callers[c].res[1],
                                                              callers[c].loc)>>,
                                !.pc = "return"]]
    /\ Logged(c, "insert", callers[c].loc, "none", <<callers'[c].cachedTzData[1].TZ>>)
    /\ UNCHANGED cacheOthers

\* lines 144-148
Return(c) ==
    /\ callers[c].pc = "return"
    /\ tz_cache' = tz_cache
    /\ callers' = [callers EXCEPT ![c] =
                      [Left(@) EXCEPT !.TZ = TZOf(callers[c].cachedTzData[1])]]
    /\ Logged(c, "return", callers[c].loc,
              IF callers[c].res = None THEN "cache" ELSE "lookup", None)
    /\ UNCHANGED cacheOthers

----------------------------------------------------------------------------
(* SpecCache: two activities, with and without a located waypoint, a known  *)
(* timezone and a fallback, and up to MaxCalls calls of CalculateTZ on      *)
(* each, interleaved at every access to the cache and to TZLookup.          *)

CacheLaps ==
    { <<>>, <<LapOf(None, None, ActivityStatistics, <<Waypoint(Regular, LocA)>>)>> }

InitCache ==
    /\ ConvIdle
    /\ edgeOrder = SourceOrder
    /\ objs = <<>>
    /\ stores = <<>>
    /\ StatIdle
    /\ Stats = ActivityStatistics
    /\ Laps = <<>>
    /\ focus = "none"
    /\ summed = {}
    /\ call = NoActivityCall
    /\ pre = NoSnapshot
    /\ StartTime = None /\ EndTime = None /\ Stationary = None
    /\ TZ = None
    /\ FallbackTZ = None
    /\ tz_cache \in { <<>>, <<CacheEntry(TZLookup(<<46>>, <<16>>), LocEast)>> }
    /\ types = <<>>
    /\ picked = None
    /\ UID = None
    /\ peer = NoPeer
    /\ callers \in [Callers -> { Caller(l, t, f) :
                                   l \in CacheLaps,
                                   t \in {None, timezone("America/New_York")},
                                   f \in {None, timezone("UTC")} }]
    /\ events = [c \in Callers |-> <<>>]

CacheEnter == \E c \in Callers : Enter(c)
CacheFindOne == \E c \in Callers : FindOne(c)
CacheLookup == \E c \in Callers : Lookup(c)
CacheInsert == \E c \in Callers : Insert(c)
CacheReturn == \E c \in Callers : Return(c)

NextCache ==
    \/ CacheEnter
    \/ CacheFindOne
    \/ CacheLookup
    \/ CacheInsert
    \/ CacheReturn

SpecCache == InitCache /\ [][NextCache]_vars

----------------------------------------------------------------------------
(* C13: the lookup happens only after a miss and is followed by the put.    *)

\* the positions of a call's log where it did op
Did(log, op) == {i \in 1..Len(log) : log[i].op = op}

\* the call of this log is over
Over(log) == \E i \in Did(log, "return") \cup Did(log, "raise") : i = Len(log)

\* the cache holds a document of these coordinates with this value
Holds(cache, loc, res) ==
    \E k \in 1..Len(cache) :
        /\ cache[k].Latitude = loc[1].Latitude
        /\ cache[k].Longitude = loc[1].Longitude
        /\ cache[k].TZ = res[1]

\* a TZLookup comes after a cache get of the same coordinates that found nothing
LookupAfterMiss(log) ==
    \A i \in Did(log, "TZLookup") :
        \E j \in Did(log, "find_one") :
            j < i /\ log[j].loc = log[i].loc /\ log[j].value = "miss"

\* once the call is over, a TZLookup was followed by the put of its result
PutAfterLookup(log) ==
    Over(log) =>
        \A i \in Did(log, "TZLookup") :
            /\ \E k \in Did(log, "insert") :
                  k > i /\ log[k].loc = log[i].loc /\ log[k].res = log[i].res /\ log[k].wrote
            /\ Holds(tz_cache, log[i].loc, log[i].res)

\* the call took the memoized timezone, the fallback timezone, or a cache hit
NoLookupNeeded(log) ==
    \/ \E i \in Did(log, "return") : log[i].value \in {"memo", "fallback"}
    \/ \E i \in Did(log, "find_one") : log[i].value = "hit"

\* the cache is written by the put alone
Untouched(log) ==
    /\ Did(log, "TZLookup") = {}
    /\ \A i \in 1..Len(log) : ~log[i].wrote

\* C13: in every call of CalculateTZ, TZLookup is invoked only after a cache
\* get for the same coordinates returned nothing, every lookup is followed by
\* a cache put of its result for those coordinates, and a call that took the
\* memoized timezone, the fallback timezone or a cache hit neither calls
\* TZLookup nor writes the cache.
C13_LookupOnMiss ==
    \A c \in DOMAIN callers :
        /\ LookupAfterMiss(events[c])
        /\ PutAfterLookup(events[c])
        /\ NoLookupNeeded(events[c]) => Untouched(events[c])
        /\ \A i \in 1..Len(events[c]) : events[c][i].wrote => events[c][i].op = "insert"

\* a call that missed, looked up and put, and is over
C13_Witness ==
    \E c \in DOMAIN callers :
        /\ Over(events[c])
        /\ Did(events[c], "TZLookup") # {}
        /\ Did(events[c], "insert") # {}

\* calls that ended on a cache hit, on the memoized and on the fallback timezone
C13_WitnessHit ==
    \E c \in DOMAIN callers :
        /\ Over(events[c])
        /\ \E i \in Did(events[c], "find_one") : events[c][i].value = "hit"

C13_WitnessMemo ==
    \E c \in DOMAIN callers :
        \E i \in Did(events[c], "return") : events[c][i].value = "memo"

C13_WitnessFallback ==
    \E c \in DOMAIN callers :
        \E i \in Did(events[c], "return") : events[c][i].value = "fallback"

----------------------------------------------------------------------------
(* C14: two callers resolving the same coordinates at the same time.        *)

\* a caller inside CalculateTZ goes on: the method is straight-line code, the
\* cache and TZLookup calls block and return, and nothing waits on the other
\* caller
Proceed(c) == FindOne(c) \/ Lookup(c) \/ Insert(c) \/ Return(c)

\* the activities of InitCache that have no timezone yet
InitConcurrent ==
    /\ InitCache
    /\ \A c \in Callers : callers[c].TZ = None /\ callers[c].FallbackTZ # None

SpecCacheFair ==
    InitConcurrent /\ [][NextCache]_vars /\ \A c \in Callers : WF_vars(Proceed(c))

\* the coordinates the caller's last completed call resolved through the cache
\* or the lookup, as a set of at most one
ResolvedAt(c) ==
    IF Over(events[c])
    THEN {events[c][i].loc : i \in {j \in Did(events[c], "return") :
                                       events[c][j].value \in {"lookup", "cache"}}}
    ELSE {}

\* callers whose last calls resolved the same coordinates hold the same timezone
SameTimezone ==
    \A c, d \in DOMAIN callers :
        (ResolvedAt(c) \cap ResolvedAt(d) # {}) => callers[c].TZ = callers[d].TZ

\* the cache entries of the same coordinates, duplicates included, agree
DuplicatesAgree ==
    \A i, j \in 1..Len(tz_cache) :
        (/\ tz_cache[i].Latitude = tz_cache[j].Latitude
         /\ tz_cache[i].Longitude = tz_cache[j].Longitude)
        => tz_cache[i].TZ = tz_cache[j].TZ

\* C14: callers of CalculateTZ on different activities that resolve the same
\* coordinates always finish their calls, finish with the same timezone, and
\* the cache entries for the coordinates, duplicates included, hold the same
\* value, so that a later call resolves to that timezone whichever it is given.
C14_SameTimezone ==
    /\ [](SameTimezone /\ DuplicatesAgree)
    /\ \A c \in Callers : (callers[c].pc # "idle") ~> (callers[c].pc = "idle")

\* both callers missed and both put: two entries for the same coordinates,
\* and both calls are over
BothMissed(loc) ==
    \A c \in DOMAIN callers :
        /\ Over(events[c])
        /\ \E i \in Did(events[c], "find_one") :
              events[c][i].value = "miss" /\ events[c][i].loc = loc
        /\ \E i \in Did(events[c], "insert") : events[c][i].loc = loc

Duplicates(loc) ==
    Cardinality({k \in 1..Len(tz_cache) :
                    /\ tz_cache[k].Latitude = loc[1].Latitude
                    /\ tz_cache[k].Longitude = loc[1].Longitude})

C14_Witness ==
    /\ BothMissed(LocA)
    /\ Duplicates(LocA) = 2
    /\ callers[1].TZ = callers[2].TZ

\* a later call for the coordinates was served one of the duplicates
C14_WitnessLater ==
    /\ Duplicates(LocA) = 2
    /\ \E c \in DOMAIN callers :
          /\ callers[c].calls = 2
          /\ ResolvedAt(c) = {LocA}
          /\ \E i \in Did(events[c], "find_one") : events[c][i].value = "hit"

----------------------------------------------------------------------------
(* SpecOrder: CheckSanity on activities that break several rules at once,   *)
(* with and without a start time, and with laps whose faults lie in         *)
(* different laps.                                                          *)

OrderStartTimes ==
    {None} \cup {DateTime(w, None) : w \in {0 - 1, Today - 3600, Today + 5 * Day + 1}}

OrderDurations == {<<>>, <<0 - 1>>, <<0>>, <<3600>>, <<6 * Day>>, <<11 * Day>>}

\* the end time of an activity starting at startTime, or of one without a
\* start time
OrderEnd(startTime, d) ==
    IF d = None THEN None
    ELSE IF startTime = None THEN DateTime(Today + d[1], None)
    ELSE DateTime(startTime[1].wall + d[1], None)

\* laps with times t and statistics st: the faults of one lap, and faults
\* spread over two laps
OrderLaps(t, st) ==
    LET W1 == Waypoint(Regular, LocA)
        W2 == Waypoint(Regular, Location(<<46>>, <<15>>, <<310>>))
        Z == Waypoint(Regular, Location(<<0>>, <<0>>, None))
        X == Waypoint(Regular, Location(<<91>>, <<14>>, None))
        F == Waypoint(Regular, Location(<<46>>, <<14>>, <<0>>))
        P == Waypoint(Pause, None)
        L(w) == LapOf(t, t, st, w)
        NoStart(w) == LapOf(None, t, st, w)
        NoEnd(w) == LapOf(t, None, st, w)
    IN  { <<>>,
          <<L(<<>>)>>,
          <<L(<<W1>>)>>,
          <<L(<<W1, W2>>)>>,
          <<L(<<W1, P>>)>>,
          <<L(<<F, F>>)>>,
          <<L(<<W1, W2, Z>>)>>,
          <<L(<<X, Z>>)>>,
          <<L(<<Z, X>>)>>,
          <<NoStart(<<W1, W2>>)>>,
          <<LapOf(None, None, st, <<Z, W1>>)>>,
          <<LapOf(t, t, ActivityStatistics, <<W1, W2>>)>>,
          <<LapOf(None, t, ActivityStatistics, <<Z>>)>>,
          <<L(<<W1, W2>>), L(<<W1>>)>>,
          <<L(<<W1, Z>>), NoStart(<<W1>>)>>,
          <<L(<<X, W1>>), NoEnd(<<W1>>)>>,
          <<NoEnd(<<W1>>), L(<<Z, W1>>)>>,
          <<L(<<W1>>), L(<<P, P>>)>>,
          <<L(<<F>>), L(<<F, P>>)>> }

InitOrder ==
    /\ ConvIdle
    /\ edgeOrder = SourceOrder
    /\ objs = <<>>
    /\ stores = <<>>
    /\ StatIdle
    /\ \E d \in {Statistic(Meters, NoFields),
                 Statistic(Kilometers, [NoFields EXCEPT !["Value"] = Rat(1001, 1)])} :
          Stats = [ActivityStatistics EXCEPT !["Distance"] = d]
    /\ StartTime \in OrderStartTimes
    /\ \E d \in OrderDurations : EndTime = OrderEnd(StartTime, d)
    /\ Laps \in OrderLaps(DateTime(Today, None), Stats)
    /\ Stationary \in {None, <<TRUE>>, <<FALSE>>}
    /\ focus = "none"
    /\ summed = {}
    /\ call = NoActivityCall
    /\ pre = NoSnapshot
    /\ TZ = None /\ FallbackTZ = None /\ tz_cache = <<>>
    /\ types = <<>>
    /\ picked = None
    /\ MoreIdle

OrderCheck ==
    /\ focus = "none"
    /\ \E now \in NowValues : CallCheckSanity(now)

NextOrder == OrderCheck

SpecOrder == InitOrder /\ [][NextOrder]_vars

----------------------------------------------------------------------------
(* C15: the rules in the listed order.  Each rule is a predicate on the     *)
(* activity, with the errors that report it.                                *)

Rule(violated, msgs) == [violated |-> violated, msgs |-> msgs]

BothTimes == StartTime # None /\ EndTime # None

DistanceOver ==
    /\ Stats["Distance"].f["Value"] # None
    /\ RLess(RInt(1000000),
             IF Stats["Distance"].Units = Kilometers
             THEN RMul(Stats["Distance"].f["Value"], RInt(1000))
             ELSE Stats["Distance"].f["Value"])

LapLacksTime(lap) == lap.StartTime = None \/ lap.EndTime = None

BadCoordinates(wp) ==
    /\ wp.Location # None
    /\ \/ wp.Location[1].Latitude = <<0>> /\ wp.Location[1].Longitude = <<0>>
       \/ wp.Location[1].Latitude # None /\ wp.Location[1].Latitude[1] > 90
       \/ wp.Location[1].Latitude # None /\ wp.Location[1].Latitude[1] < 0 - 90
       \/ wp.Location[1].Longitude # None /\ wp.Location[1].Longitude[1] > 180
       \/ wp.Location[1].Longitude # None /\ wp.Location[1].Longitude[1] < 0 - 180

LapHasBadCoordinates(lap) ==
    \E k \in 1..Len(lap.Waypoints) : BadCoordinates(lap.Waypoints[k])

AllWaypoints == FlatWaypoints(Laps, 1)

Unpaused == {k \in 1..Len(AllWaypoints) : AllWaypoints[k].Type # Pause}

Altitudes ==
    {AllWaypoints[k].Location[1].Altitude[1] :
        k \in {j \in 1..Len(AllWaypoints) :
                  /\ AllWaypoints[j].Location # None
                  /\ AllWaypoints[j].Location[1].Altitude # None}}

TimeRules ==
    << Rule(StartTime # None /\ (StartTime[1].wall > call.now + 5 * Day
                                 \/ StartTime[1].wall < Year1995),
            {"Activity is from the future", "Activity falls implausibly far in the past"}),
       Rule(EndTime # None /\ EndTime[1].wall > call.now + 10 * Day,
            {"Activity ends in the future"}),
       Rule(BothTimes /\ SecondsLong < 0, {"Event finishes before it starts"}),
       Rule(BothTimes /\ SecondsLong = 0, {"0-duration activity"}),
       Rule(BothTimes /\ SecondsLong > 5 * Day, {"Exceedingly long activity (time)"}) >>

FirstRules ==
    << Rule(Len(Laps) = 0, {"No laps"}),
       Rule(Stationary = None, {"Activity is undecidedly stationary"}),
       Rule(Stationary = <<FALSE>> /\ Len(AllWaypoints) \in {0, 1},
            {"Exactly 0 waypoints", "Only 1 waypoint"}),
       Rule(DistanceOver, {"Exceedingly long activity (distance)"}) >>

StatsRule ==
    Rule(Len(Laps) = 1 /\ \E k \in DOMAIN Stats :
                             \/ Laps[1].Stats[k].Units # Stats[k].Units
                             \/ Laps[1].Stats[k].f # Stats[k].f,
         {"Activity with 1 lap has mismatching statistics between activity and lap"})

PostScanRules ==
    << Rule(Cardinality(Unpaused) = 1, {"0 < n <= 1 unpaused points in activity"}),
       Rule(Cardinality(Located(AllWaypoints)) = 1,
            {"0 < n <= 1 geographic points in activity"}),
       Rule(Altitudes = {0}, {"Invalid altitudes / no change"}) >>

LapMsgs == {"Lap has no start time", "Lap has no end time"}
CoordinateMsgs == {"Invalid lat/lng", "Out of range lat/lng"}

\* the rules as listed: every lap's times, then every waypoint's coordinates
ListedRules ==
    FirstRules \o TimeRules
    \o << StatsRule,
          Rule(\E i \in 1..Len(Laps) : LapLacksTime(Laps[i]), LapMsgs),
          Rule(\E i \in 1..Len(Laps) : LapHasBadCoordinates(Laps[i]), CoordinateMsgs) >>
    \o PostScanRules

Violated(rules) == {i \in 1..Len(rules) : rules[i].violated}

Earliest(rules) == CHOOSE i \in Violated(rules) : \A j \in Violated(rules) : i <= j

ReportsEarliest(rules) ==
    IF Violated(rules) = {} THEN call.end = "ok"
    ELSE call.end = "ValueError" /\ call.msg \in rules[Earliest(rules)].msgs

\* C15: CheckSanity raises the error of the earliest violated rule in the
\* order: laps non-empty, stationary flag set, waypoint count, distance limit,
\* start-time window, end-time window, end before start, zero duration,
\* duration limit, single-lap stats match, per-lap start and end present,
\* per-waypoint coordinates, unpaused count, located count, flat zero altitude.
C15_EarliestRule ==
    call.op = "CheckSanity" => ReportsEarliest(ListedRules)

\* no start time and an end time too far in the future: line 178 reads the
\* start time before any rule on the times is applied
C15_Diverges ==
    /\ call.op = "CheckSanity"
    /\ StartTime = None
    /\ EndTime # None /\ EndTime[1].wall > call.now + 10 * Day
    /\ Violated(ListedRules) = {6}
    /\ call.end = "AttributeError"

\* a bad waypoint in the first lap, no start time on the second: the scan
\* reports the waypoint
C15_DivergesLaps ==
    /\ call.op = "CheckSanity"
    /\ StartTime # None
    /\ Len(Laps) = 2
    /\ ~LapLacksTime(Laps[1]) /\ LapHasBadCoordinates(Laps[1])
    /\ LapLacksTime(Laps[2])
    /\ Earliest(ListedRules) = 11
    /\ call.end = "ValueError"
    /\ call.msg \in CoordinateMsgs

\* the scan of lines 201-219: the first lap, in order, that lacks a time or has
\* a waypoint with bad coordinates decides, its times before its waypoints
ScanFaults == {i \in 1..Len(Laps) : LapLacksTime(Laps[i]) \/ LapHasBadCoordinates(Laps[i])}

ScanRule ==
    Rule(ScanFaults # {},
         IF ScanFaults = {} THEN {}
         ELSE IF LapLacksTime(Laps[CHOOSE i \in ScanFaults : \A j \in ScanFaults : i <= j])
         THEN LapMsgs ELSE CoordinateMsgs)

ScannedRules == FirstRules \o TimeRules \o <<StatsRule, ScanRule>> \o PostScanRules

\* with a start time the error is that of the earliest rule, the lap and
\* waypoint rules taken lap by lap; without one the call ends in an
\* AttributeError unless one of the first four rules is violated
C15_ScanOrder ==
    call.op = "CheckSanity" =>
        IF StartTime = None /\ Violated(FirstRules) = {}
        THEN call.end = "AttributeError"
        ELSE ReportsEarliest(ScannedRules)

====
